---- MODULE Spec2Model ----
(***************************************************************************)
(* AnimEngine (Site/Assets/JS/Animation.js): the Tween task, the per-      *)
(* element transform cache and AnimEngine.tween (the spec's animate()),    *)
(* driven by the host's requestAnimationFrame.                             *)
(*                                                                         *)
(* Numbers are exact rationals <<n, d>> (d > 0, lowest terms) where the    *)
(* code computes in IEEE doubles; frame timestamps are whole milliseconds. *)
(* A CSS transform string is a record [fn, args]: the function name and    *)
(* its numeric arguments; each regular expression of the code is the       *)
(* operator that says what it captures from such a string.                 *)
(***************************************************************************)
EXTENDS Integers, Sequences, FiniteSets, TLC

VARIABLES
    clock,       \* timestamp the host hands to this frame's callbacks
    tweens,      \* every Tween constructed so far, by id (its index)
    rafMap,      \* the host's map of animation frame callbacks, in request order
    batch,       \* handles snapshotted for the frame being run
    nextHandle,  \* the host's next requestAnimationFrame handle
    elems,       \* per element: __anim_transform, __anim_tweens, style.transform, classList
    handles,     \* one entry per AnimEngine.tween call that returned a handle
    log,         \* observation: per Tween, what each of its ticks did
    probe,       \* observation: per Tween, what the start-value resolution read
    stopRet,     \* observation: Tweens on which stop() has returned
    calls,       \* observation: per AnimEngine.tween call, its arguments and what it returned
    clicks,      \* onDoubleClick, selector form: the Map of per-element last-click times
    lastClick,   \* onDoubleClick, element form: the closure's last
    clickLog,    \* observation: per click and listener, whether the handler ran
    throttleLast,\* throttle: the wrapper closure's last
    throttleLog, \* observation: per invocation of the wrapper, whether fn ran
    observed,    \* onEnterViewport: per registration, the targets its observer watches
    visible,     \* the host: the targets that intersect the viewport
    viewLog,     \* observation: crossings, callback invocations and disposer calls, in order
    pointer,     \* onHover: the node the pointer is over
    hoverLog,    \* observation: the enterFn and leaveFn calls, in order
    endTick      \* observation: the completing tick of one transform Tween, in host arithmetic

animVars == <<tweens, rafMap, batch, nextHandle, elems, handles, log, probe, stopRet, calls>>
clickVars == <<clicks, lastClick, clickLog>>
throttleVars == <<throttleLast, throttleLog>>
viewVars == <<observed, visible, viewLog>>
hoverVars == <<pointer, hoverLog>>
floatVars == <<endTick>>
triggerVars == <<clickVars, throttleVars, viewVars, hoverVars, floatVars>>

vars == <<clock, tweens, rafMap, batch, nextHandle, elems, handles, log, probe, stopRet,
          calls, clicks, lastClick, clickLog, throttleLast, throttleLog, observed, visible,
          viewLog,
          pointer, hoverLog, endTick>>

(***************************************************************************)
(* Bounds of the model.                                                    *)
(***************************************************************************)
MaxCalls == 2
MaxTime == 4
MaxColdCalls == 2

(***************************************************************************)
(* Exact rational arithmetic.                                              *)
(***************************************************************************)
Abs(x) == IF x < 0 THEN -x ELSE x

RECURSIVE GCD(_, _)
GCD(a, b) == IF b = 0 THEN a ELSE GCD(b, a % b)

Reduce(n, d, g) == IF d < 0 THEN <<(-n) \div g, (-d) \div g>> ELSE <<n \div g, d \div g>>
Norm(n, d) == Reduce(n, d, GCD(Abs(n), Abs(d)))

R(i) == <<i, 1>>
RAdd(x, y) == Norm(x[1] * y[2] + y[1] * x[2], x[2] * y[2])
RSub(x, y) == Norm(x[1] * y[2] - y[1] * x[2], x[2] * y[2])
RMul(x, y) == Norm(x[1] * y[1], x[2] * y[2])
RDiv(x, y) == Norm(x[1] * y[2], x[2] * y[1])
RLt(x, y) == x[1] * y[2] < y[1] * x[2]
RLe(x, y) == x[1] * y[2] <= y[1] * x[2]
RMin(x, y) == IF RLt(y, x) THEN y ELSE x
RMax(x, y) == IF RLt(x, y) THEN y ELSE x
IMax(a, b) == IF a < b THEN b ELSE a

Null == <<>>
Some(v) == <<v>>

(***************************************************************************)
(* Helpers of Animation.js: clamp, lerp, the Easing Table.                 *)
(***************************************************************************)
clampNoUpper(v, a, b) == RMax(v, a)
clamp(v, a, b) == RMin(RMax(v, a), b)

lerp(a, b, t) == RAdd(a, RMul(RSub(b, a), t))

Easings(name, t) ==
    CASE name = "linear" -> t
      [] name = "easeInCubic" -> RMul(t, RMul(t, t))
      [] name = "easeOutCubic" -> RAdd(RMul(RSub(t, R(1)), RMul(RSub(t, R(1)), RSub(t, R(1)))), R(1))
      [] name \in {"easeOutQuad", "outQuad", "ease"} -> RMul(t, RSub(R(2), t))
      [] name = "easeInOutCubic" ->
            IF RLt(t, <<1, 2>>) THEN RMul(R(4), RMul(t, RMul(t, t)))
            ELSE RAdd(RMul(RSub(t, R(1)),
                           RMul(RSub(RMul(R(2), t), R(2)), RSub(RMul(R(2), t), R(2)))),
                      R(1))
      [] OTHER -> t

(***************************************************************************)
(* The host: requestAnimationFrame / cancelAnimationFrame.  A machine      *)
(* state s is the record of the program variables an operation updates.    *)
(***************************************************************************)
S == [tweens |-> tweens, rafMap |-> rafMap, nextHandle |-> nextHandle,
      elems |-> elems, log |-> log]

RECURSIVE SeqRemove(_, _)
SeqRemove(q, h) ==
    IF q = <<>> THEN <<>>
    ELSE IF Head(q)[1] = h THEN SeqRemove(Tail(q), h)
    ELSE <<Head(q)>> \o SeqRemove(Tail(q), h)

\* requestAnimationFrame(loop) for Tween i: the handle returned is s.nextHandle
requestAnimationFrame(s, i) ==
    [s EXCEPT !.rafMap = Append(@, <<s.nextHandle, i>>),
              !.nextHandle = @ + 1]

cancelAnimationFrame(s, h) == [s EXCEPT !.rafMap = SeqRemove(@, h)]

(***************************************************************************)
(* class Tween.                                                            *)
(***************************************************************************)
Tween(el, kind, meta, from, to, duration, easing, delay) ==
    [el |-> el, kind |-> kind, meta |-> meta, from |-> from, to |-> to,
     duration |-> duration, easing |-> easing, delay |-> delay,
     propType |-> IF kind = "color" THEN "color" ELSE "number",
     _start |-> Null, _raf |-> Null, _stopped |-> FALSE]

\* start(): this._raf = requestAnimationFrame(loop)
start(s, i) ==
    [requestAnimationFrame(s, i) EXCEPT !.tweens[i]._raf = Some(s.nextHandle)]

\* stop(): this._stopped = true; if (this._raf) cancelAnimationFrame(this._raf); this._raf = null
stopForgets(s, i) == [s EXCEPT !.tweens[i]._raf = Null]
stop(s, i) ==
    [(IF s.tweens[i]._raf # Null THEN cancelAnimationFrame(s, s.tweens[i]._raf[1]) ELSE s)
        EXCEPT !.tweens[i]._stopped = TRUE, !.tweens[i]._raf = Null]

\* if (this._start == null) this._start = t + this.delay
anchorNoDelay(tw, t) == IF tw._start = Null THEN t ELSE tw._start[1]
anchor(tw, t) == IF tw._start = Null THEN t + tw.delay ELSE tw._start[1]

\* const raw = clamp(elapsed / Math.max(1, this.duration))
rawProgressImmediate(tw, elapsed) ==
    IF tw.duration <= 0 THEN R(1)
    ELSE clamp(RDiv(R(elapsed), R(tw.duration)), R(0), R(1))
rawProgress(tw, elapsed) ==
    clamp(RDiv(R(elapsed), R(IMax(1, tw.duration))), R(0), R(1))

\* if (raw < 1) this._raf = requestAnimationFrame(loop); else this.onComplete()
reschedulesAlways(raw) == TRUE
reschedules(raw) == RLt(raw, R(1))

(***************************************************************************)
(* CSS transform strings.  A string is the sequence of its functions, each *)
(* [fn, args]; '' is the empty sequence and 'none' is NoneStr.             *)
(***************************************************************************)
Fn(name, args) == [fn |-> name, args |-> args]
EmptyStr == <<>>
NoneStr == <<Fn("none", <<>>)>>

TransformKeys ==
    {"translateX", "translateY", "translateZ", "scale", "scaleX", "scaleY",
     "rotate", "skewX", "skewY"}

\* position of the first function of str, at or after position p, that satisfies Ok
Least(hits) == IF hits = {} THEN 0 ELSE CHOOSE k \in hits : \A j \in hits : k <= j
FirstAt(str, p, Ok(_)) == Least({k \in p..Len(str) : Ok(str[k])})
ArgAt(str, k, n) == IF k = 0 THEN Null ELSE Some(str[k].args[n])

\* parseFloat of the first capture of /name\(([^,)]+)/: the first argument
FirstArgOf(str, name) ==
    ArgAt(str, Least({k \in 1..Len(str) : str[k].fn = name /\ Len(str[k].args) >= 1}), 1)

\* existingTransform.match(/scale\(([^)]+)\)/), parseFloat(scaleMatch[1])
scaleMatch(str) == FirstArgOf(str, "scale")

\* /translateX\(([^,)]+)/, else /translate\(([^,)]+)/, else /translate3d\(([^,)]+)/
OrElse(m, n) == IF m # Null THEN m ELSE n
txMatch(str) ==
    OrElse(FirstArgOf(str, "translateX"),
           OrElse(FirstArgOf(str, "translate"), FirstArgOf(str, "translate3d")))

\* /translate(?:3d|Y)?\([^,]*,\s*([^,)]+)/: from the first translate(, translate3d(
\* or translateY(, [^,]* runs to the first comma of the string after it (also one
\* inside a later function), and the capture is what follows that comma
IsTranslateFn(f) == f.fn \in {"translate", "translate3d", "translateY"}
HasComma(f) == Len(f.args) >= 2
CommaFrom(str, p) == IF p = 0 THEN 0 ELSE FirstAt(str, p, HasComma)
tyMatch(str) == ArgAt(str, CommaFrom(str, FirstAt(str, 1, IsTranslateFn)), 2)

\* existingTransform.match(/rotate\(([^)]+)/)
rotMatch(str) == FirstArgOf(str, "rotate")

\* existingTransform.match(/matrix\(([^)]+)\)/), split(',').map(parseFloat)
IsMatrixFn(f) == f.fn = "matrix"
ArgsAt(str, k) == IF k = 0 THEN Null ELSE Some(str[k].args)
matrixMatch(str) == ArgsAt(str, FirstAt(str, 1, IsMatrixFn))

\* Math.sqrt on the squares of rationals the model's matrices hold
Sqrt(q) == R(Least({r \in 0..4 : r * r * q[2] = q[1]}))

\* buildTransformString(map): groups in the fixed order, only channels present
\* map.translateX || 0
OrZero(map, c) == IF c \in DOMAIN map /\ map[c] # R(0) THEN map[c] ELSE R(0)
\* if ('scale' in map) parts.push('scale(' + map.scale + ')')
partAlways(map, c) == <<Fn(c, <<IF c \in DOMAIN map THEN map[c] ELSE R(0)>>)>>
Part(map, c) == IF c \in DOMAIN map THEN <<Fn(c, <<map[c]>>)>> ELSE <<>>
Translate3d(map) ==
    IF {"translateX", "translateY", "translateZ"} \cap DOMAIN map # {}
    THEN <<Fn("translate3d",
              <<OrZero(map, "translateX"), OrZero(map, "translateY"), OrZero(map, "translateZ")>>)>>
    ELSE <<>>
buildTransformString(map) ==
    Translate3d(map) \o Part(map, "scale") \o Part(map, "scaleX") \o Part(map, "scaleY")
        \o Part(map, "rotate") \o Part(map, "skewX") \o Part(map, "skewY")

(***************************************************************************)
(* AnimEngine.tween, transform branch: the start value of a channel.       *)
(* elem is the element's record, cst what cs.transform || cs.webkitTransform*)
(* reads from the host's computed style.                                   *)
(***************************************************************************)
IsScaleKey(key) == key \in {"scale", "scaleX", "scaleY"}

\* a resolution whose default is 0 for every channel
defaultFromZero(key) == R(0)

\* let fromVal = (/^scale/.test(key)) ? 1 : 0
defaultFrom(key) == IF IsScaleKey(key) THEN R(1) ELSE R(0)

\* if (match) fromVal = parseFloat(match[1])
orDefault(m, key) == IF m # Null THEN m[1] ELSE defaultFrom(key)

\* cs.transform || cs.webkitTransform || element.style.transform || ''
existingTransform(elem, cst) == IF cst # EmptyStr THEN cst ELSE elem.style_transform

\* if (fromVal === 1 && classList.contains('menu-item-circle')) fromVal = 0
circleZero(elem, f) ==
    IF f = R(1) /\ "menu-item-circle" \in elem.classList THEN R(0) ELSE f

\* if (fromVal === 0) { matrixMatch ...; if (values.length >= 6) fromVal = values[4] }
matrixIfZero(f, mm) ==
    IF f = R(0) /\ mm # Null /\ Len(mm[1]) >= 6 THEN mm[1][5] ELSE f

\* if (fromVal === 0 && classList.contains('menu-item-text')) fromVal = -14
textDefault(elem, f) ==
    IF f = R(0) /\ "menu-item-text" \in elem.classList THEN R(-14) ELSE f

\* the branch taken when existingTransform is a string other than 'none'
fromParsed(elem, key, existing) ==
    IF IsScaleKey(key) THEN circleZero(elem, orDefault(scaleMatch(existing), key))
    ELSE IF key = "translateX" THEN
        textDefault(elem, matrixIfZero(orDefault(txMatch(existing), key), matrixMatch(existing)))
    ELSE IF key = "translateY" THEN orDefault(tyMatch(existing), key)
    ELSE IF key = "rotate" THEN orDefault(rotMatch(existing), key)
    ELSE defaultFrom(key)

\* freshTransform.match(/matrix\(([^)]+)\)/) when freshTransform is a string other than 'none'
freshMatrix(freshTransform) ==
    IF freshTransform # EmptyStr /\ freshTransform # NoneStr
    THEN matrixMatch(freshTransform) ELSE Null

\* values[4], values[5] or Math.sqrt(values[0]^2 + values[1]^2)
matrixComponent(key, mm) ==
    IF mm # Null /\ Len(mm[1]) >= 6 THEN
        IF key = "translateX" THEN mm[1][5]
        ELSE IF key = "translateY" THEN mm[1][6]
        ELSE IF IsScaleKey(key)
             THEN Sqrt(RAdd(RMul(mm[1][1], mm[1][1]), RMul(mm[1][2], mm[1][2])))
        ELSE defaultFrom(key)
    ELSE defaultFrom(key)

\* if (fromVal === ((/^scale/.test(key)) ? 1 : 0)) { class-based defaults }
classDefault(elem, key, f) ==
    IF f = (IF IsScaleKey(key) THEN R(1) ELSE R(0)) THEN
        IF IsScaleKey(key) /\ "menu-item-circle" \in elem.classList THEN R(0)
        ELSE IF key = "translateX" /\ "menu-item-text" \in elem.classList THEN R(-14)
        ELSE f
    ELSE f

\* the branch taken when existingTransform is '' or 'none': a second read of the
\* computed style (freshCS.transform), then the class-based defaults
fromFallback(elem, key, freshTransform) ==
    classDefault(elem, key, matrixComponent(key, freshMatrix(freshTransform)))

\* if (existingTransform && existingTransform !== 'none') {...} else {...}
fromStyle(elem, key, cst, existing) ==
    IF existing # EmptyStr /\ existing # NoneStr
    THEN fromParsed(elem, key, existing)
    ELSE fromFallback(elem, key, cst)

\* if (element.__anim_transform[key] !== undefined) fromVal = element.__anim_transform[key]
resolveIgnoresCache(elem, key, cst) ==
    fromStyle(elem, key, cst, existingTransform(elem, cst))
resolveFrom(elem, key, cst) ==
    IF key \in DOMAIN elem.anim_transform THEN elem.anim_transform[key]
    ELSE fromStyle(elem, key, cst, existingTransform(elem, cst))

\* element.__anim_transform[key] = val; element.style.transform = buildTransformString(...)
\* a rendering that walks the object's own keys, in the order they were first assigned
RECURSIVE renderKeys(_, _, _)
renderKeys(keys, map, seen3d) ==
    IF keys = <<>> THEN <<>>
    ELSE IF Head(keys) \in {"translateX", "translateY", "translateZ"}
    THEN (IF seen3d THEN <<>> ELSE Translate3d(map)) \o renderKeys(Tail(keys), map, TRUE)
    ELSE Part(map, Head(keys)) \o renderKeys(Tail(keys), map, seen3d)
withMapInKeyOrder(elem, map) ==
    [elem EXCEPT !.has_anim_transform = TRUE, !.anim_transform = map,
                 !.style_transform = renderKeys(elem.anim_keys, map, FALSE)]
withMap(elem, map) ==
    [elem EXCEPT !.has_anim_transform = TRUE, !.anim_transform = map,
                 !.style_transform = buildTransformString(map)]
\* the own keys of element.__anim_transform after an assignment to key: a new key
\* is added last, an existing one keeps its place
ownKeys(elem, key) ==
    IF key \in DOMAIN elem.anim_transform THEN elem.anim_keys ELSE Append(elem.anim_keys, key)
setChannelAlone(elem, key, val) ==
    withMap([elem EXCEPT !.anim_keys = <<key>>], (key :> val))
setChannel(elem, key, val) ==
    withMap([elem EXCEPT !.anim_keys = ownKeys(elem, key)], (key :> val) @@ elem.anim_transform)

(***************************************************************************)
(* CSS values other than transforms.  A colour text is its form ('#rrggbb',*)
(* 'rgb(r, g, b)', 'rgba(r, g, b, a)', a text no pattern matches, or '')   *)
(* with its components; a numeric text is its number and whether it ends   *)
(* in px; any other text is a word.                                        *)
(***************************************************************************)
Col(form, r, g, b, a) == [form |-> form, r |-> r, g |-> g, b |-> b, a |-> a]
HexText(r, g, b) == Col("hex", R(r), R(g), R(b), R(1))
RgbText(r, g, b) == Col("rgb", R(r), R(g), R(b), R(1))
RgbaText(r, g, b, a) == Col("rgba", R(r), R(g), R(b), a)
BadText == Col("bad", R(0), R(0), R(0), R(0))
EmptyText == Col("empty", R(0), R(0), R(0), R(0))
NumText(n, px) == [form |-> "num", n |-> n, px |-> px]
Word(w) == [form |-> "word", w |-> w]
\* what an onUpdate writes for a number: val + 'px' or val
Written(v, px) == [form |-> "written", v |-> v, px |-> px]
Blur(v) == [form |-> "blur", v |-> v]

\* Math.round
Round(q) == R((2 * q[1] + q[2]) \div (2 * q[2]))

\* parseColor(s): [r, g, b] of '#rrggbb', 'rgb(...)' or 'rgba(...)'; null otherwise
parseColor(t) == IF t.form \in {"hex", "rgb", "rgba"} THEN Some(<<t.r, t.g, t.b>>) ELSE Null

\* colorToString(c): 'rgb(' + Math.round(c[0]) + ', ' + ... + ')'
colorToString(c) == Col("rgb", Round(c[1]), Round(c[2]), Round(c[3]), R(1))

lerpColor(a, b, t) == <<lerp(a[1], b[1], t), lerp(a[2], b[2], t), lerp(a[3], b[3], t)>>

\* element.style[key] = val
setStyle(elem, key, val) == [elem EXCEPT !.style = (key :> val) @@ @]

\* the onUpdate of the rgba Tween: rgba(round(lerp r), round(lerp g), round(lerp b), lerp a)
rgbaAt(f, to, t) ==
    Col("rgba", Round(lerp(f[1], to[1], t)), Round(lerp(f[2], to[2], t)),
        Round(lerp(f[3], to[3], t)), lerp(f[4], to[4], t))

\* the onUpdate callback each kind of Tween was constructed with
applyUpdate(elem, tw, v) ==
    CASE tw.kind = "transform" -> setChannel(elem, tw.meta, v)
      [] tw.kind = "rgba" -> setStyle(elem, tw.meta.key, rgbaAt(tw.meta.from, tw.meta.to, v))
      [] tw.kind = "color" -> setStyle(elem, tw.meta, colorToString(v))
      [] tw.kind = "filterBlur" -> setStyle(elem, "filter", Blur(v))
      [] tw.kind = "opacity" -> setStyle(elem, "opacity", Written(v, FALSE))
      [] tw.kind = "numeric" -> setStyle(elem, tw.meta.key, Written(v, tw.meta.px))
      [] OTHER -> elem

\* the onComplete of the 'value' Tween: element.value = toVal if the element has a
\* value, else for 'flex' / 'none' the display of document's .side-menu, if any
valueDone(es, el, toVal) ==
    IF es[el].has_value THEN [es EXCEPT ![el].value = Some(toVal)]
    ELSE IF toVal \in {Word("flex"), Word("none")} /\ "sideMenu" \in DOMAIN es
    THEN [es EXCEPT !["sideMenu"] = setStyle(@, "display", toVal)]
    ELSE es

\* v = propType === 'color' ? lerpColor(from, to, eased) : lerp(from, to, eased)
interp(tw, eased) ==
    IF tw.propType = "color" THEN lerpColor(tw.from, tw.to, eased)
    ELSE lerp(tw.from, tw.to, eased)

(***************************************************************************)
(* Tween.start's loop: one frame callback of Tween i at timestamp t.       *)
(***************************************************************************)
Event(ev, t, raw, val) == [ev |-> ev, t |-> t, raw |-> raw, val |-> val]

\* this.onUpdate(v, eased, raw, this.meta); for a transform channel:
\* element.__anim_transform[meta] = val; element.style.transform = buildTransformString(...)
onUpdate(s, i, t, v, raw) ==
    [s EXCEPT !.elems[s.tweens[i].el] = applyUpdate(@, s.tweens[i], v),
              !.log[i] = Append(@, Event("update", t, raw, v))]

\* this.onComplete()
onComplete(s, i, t) ==
    [s EXCEPT !.elems = IF s.tweens[i].kind = "value"
                        THEN valueDone(@, s.tweens[i].el, s.tweens[i].meta) ELSE @,
              !.log[i] = Append(@, Event("complete", t, R(1), R(0)))]

\* this._raf = requestAnimationFrame(loop)
reschedule(s, i) ==
    [requestAnimationFrame(s, i) EXCEPT !.tweens[i]._raf = Some(s.nextHandle)]

\* if (elapsed < 0) { this._raf = requestAnimationFrame(loop); return; }
loopWait(s, i, t) ==
    reschedule([s EXCEPT !.log[i] = Append(@, Event("wait", t, R(0), R(0)))], i)

\* if (raw < 1) this._raf = requestAnimationFrame(loop); else this.onComplete()
loopEndStalls(s, i, t, raw) ==
    IF reschedules(raw) THEN s ELSE onComplete(s, i, t)
loopEnd(s, i, t, raw) ==
    IF reschedules(raw) THEN reschedule(s, i) ELSE onComplete(s, i, t)

\* eased = this.easing(raw); v = lerp(this.from, this.to, eased); this.onUpdate(...)
loopActive(s, i, t, raw) ==
    loopEnd(onUpdate(s, i, t,
                     interp(s.tweens[i], Easings(s.tweens[i].easing, raw)),
                     raw),
            i, t, raw)

loopFrom(s, i, t, st) ==
    IF t - st < 0
    THEN loopWait([s EXCEPT !.tweens[i]._start = Some(st)], i, t)
    ELSE loopActive([s EXCEPT !.tweens[i]._start = Some(st)], i, t,
                    rawProgress(s.tweens[i], t - st))

loop(s, i, t) ==
    IF s.tweens[i]._stopped THEN s ELSE loopFrom(s, i, t, anchor(s.tweens[i], t))

(***************************************************************************)
(* AnimEngine.tween(element, props, opts).                                 *)
(***************************************************************************)
DefaultDuration == 400

\* const duration = opts.duration != null ? opts.duration : 400;
\* const easing = opts.easing || 'linear'; const delay = opts.delay || 0
optDuration(opts) == IF opts.duration # Null THEN opts.duration[1] ELSE DefaultDuration
optEasing(opts) == IF opts.easing # Null THEN opts.easing[1] ELSE "linear"
optDelayZero(opts) == 0
optDelay(opts) == IF opts.delay # Null THEN opts.delay[1] ELSE 0

RECURSIVE stopEachResets(_, _)
stopEachResets(s, ids) ==
    IF ids = <<>> THEN s
    ELSE stopEachResets([stop(s, Head(ids)) EXCEPT
                             !.elems[s.tweens[Head(ids)].el] =
                                 setChannel(@, s.tweens[Head(ids)].meta, s.tweens[Head(ids)].from)],
                        Tail(ids))
RECURSIVE stopEach(_, _)
stopEach(s, ids) ==
    IF ids = <<>> THEN s ELSE stopEach(stop(s, Head(ids)), Tail(ids))

\* if (element.__anim_tweens) { forEach(t => t.stop()); element.__anim_tweens = [] }
keepExisting(s, el) == s
stopEverywhere(s, el) ==
    [stopEach(s, SelectSeq([i \in 1..Len(s.tweens) |-> i], LAMBDA i : ~s.tweens[i]._stopped))
        EXCEPT !.elems[el].anim_tweens = <<>>]
stopExistingKeepsList(s, el) ==
    IF s.elems[el].has_anim_tweens THEN stopEach(s, s.elems[el].anim_tweens) ELSE s
stopExisting(s, el) ==
    IF s.elems[el].has_anim_tweens
    THEN [stopEach(s, s.elems[el].anim_tweens) EXCEPT !.elems[el].anim_tweens = <<>>]
    ELSE s

\* what the resolution of one key read: an observation kept beside the Tween
Probe(elem, key, cst) ==
    [key |-> key, cached |-> key \in DOMAIN elem.anim_transform,
     map |-> elem.anim_transform, existing |-> existingTransform(elem, cst),
     classList |-> elem.classList]

\* a transform-channel key, once fromVal is resolved: cache it, render, build the Tween
pushTweenUncached(acc, el, key, rawTo, opts, fromVal, pr) ==
    [elem |-> acc.elem,
     tws |-> Append(acc.tws,
                    Tween(el, "transform", key, fromVal, R(rawTo),
                          optDuration(opts), optEasing(opts), optDelay(opts))),
     probes |-> Append(acc.probes, pr)]
pushTween(acc, el, key, rawTo, opts, fromVal, pr) ==
    [elem |-> setChannel(acc.elem, key, fromVal),
     tws |-> Append(acc.tws,
                    Tween(el, "transform", key, fromVal, R(rawTo),
                          optDuration(opts), optEasing(opts), optDelay(opts))),
     probes |-> Append(acc.probes, pr)]

\* one key of props with a transform-channel name: acc is [elem, tws, probes]
transformKey(acc, el, key, rawTo, cst, opts) ==
    pushTween(acc, el, key, rawTo, opts,
              resolveFrom(acc.elem, key, cst), Probe(acc.elem, key, cst))

\* what a key other than a transform channel read from the computed style
PropProbe(key, rawTo, read) == [key |-> key, rawTo |-> rawTo, read |-> read]

\* tweens.push(tw) for a key other than a transform channel
pushProp(acc, tw, pr) ==
    [elem |-> acc.elem, tws |-> Append(acc.tws, tw), probes |-> Append(acc.probes, pr)]

\* x || d
OrDflt(x, d) == IF x = R(0) THEN d ELSE x

\* parts[3] !== undefined ? parts[3] : 1
alphaOf(t) == IF t.form = "rgba" THEN t.a ELSE R(1)

\* toR = parts[0] || 255, toG = parts[1] || 255, toB = parts[2] || 255, toA
rgbaTo(rawTo) ==
    <<OrDflt(rawTo.r, R(255)), OrDflt(rawTo.g, R(255)), OrDflt(rawTo.b, R(255)), alphaOf(rawTo)>>

\* cs.getPropertyValue('backgroundColor') || 'rgba(0,0,0,0)'
curBg(read) == IF read.form = "empty" THEN RgbaText(0, 0, 0, R(0)) ELSE read

\* fromR.. fromA: the target colour with alpha 0 unless the current colour matches
\* /rgba?\(([^)]+)\)/ with a non-zero alpha
rgbaFrom(cur, to) ==
    IF cur.form \in {"rgb", "rgba"} /\ alphaOf(cur) # R(0)
    THEN <<OrDflt(cur.r, R(0)), OrDflt(cur.g, R(0)), OrDflt(cur.b, R(0)), alphaOf(cur)>>
    ELSE <<to[1], to[2], to[3], R(0)>>

rgbaTween(el, key, cur, to, opts) ==
    Tween(el, "rgba", [key |-> key, from |-> rgbaFrom(cur, to), to |-> to], R(0), R(1),
          optDuration(opts), optEasing(opts), optDelay(opts))

\* cur = parseColor(cs.getPropertyValue(key)) || [0, 0, 0]; to = parseColor(rawTo) || cur
curColor(read) == IF parseColor(read) # Null THEN parseColor(read)[1] ELSE <<R(0), R(0), R(0)>>
toColor(rawTo, cur) == IF parseColor(rawTo) # Null THEN parseColor(rawTo)[1] ELSE cur

rgbTween(el, key, cur, rawTo, opts) ==
    Tween(el, "color", key, cur, toColor(rawTo, cur),
          optDuration(opts), optEasing(opts), optDelay(opts))

\* key === 'backgroundColor' || key === 'color' || key === 'borderColor'
ColorKeys == {"backgroundColor", "color", "borderColor"}
colorKey(acc, el, key, rawTo, read, opts) ==
    IF key = "backgroundColor" /\ rawTo.form = "rgba"
    THEN pushProp(acc, rgbaTween(el, key, curBg(read), rgbaTo(rawTo), opts), PropProbe(key, rawTo, read))
    ELSE pushProp(acc, rgbTween(el, key, curColor(read), rawTo, opts), PropProbe(key, rawTo, read))

\* parseFloat of a computed value: read is Null where it yields NaN (or no match)
OrNaN(read) == IF read # Null THEN read[1] ELSE R(0)

\* key === 'filterBlur'
blurKey(acc, el, key, rawTo, read, opts) ==
    pushProp(acc, Tween(el, "filterBlur", key, OrNaN(read), R(rawTo.n),
                        optDuration(opts), optEasing(opts), optDelay(opts)),
             PropProbe(key, rawTo, read))

\* key === 'opacity': cur = parseFloat(cs.opacity) || 0
opacityKey(acc, el, key, rawTo, read, opts) ==
    pushProp(acc, Tween(el, "opacity", key, OrNaN(read), R(rawTo.n),
                        optDuration(opts), optEasing(opts), optDelay(opts)),
             PropProbe(key, rawTo, read))

\* key === 'value': new Tween({ from: 0, to: 1, duration: 1, onUpdate, onComplete })
ValueDuration == 1
valueKey(acc, el, key, rawTo, read) ==
    pushProp(acc, Tween(el, "value", rawTo, R(0), R(1), ValueDuration, "linear", 0),
             PropProbe(key, rawTo, read))

\* /^\-?\d+(\.\d+)?(px)?$/i.test(String(rawTo))
numPx(rawTo) == rawTo.form = "num"

\* /px$/.test(String(rawTo)) || key === 'width' || ... 'height' || 'top' || 'left'
unitOnlyFromTarget(key, rawTo) == rawTo.px
withPx(key, rawTo) == rawTo.px \/ key \in {"width", "height", "top", "left"}

numericKey(acc, el, key, rawTo, read, opts) ==
    pushProp(acc, Tween(el, "numeric", [key |-> key, px |-> withPx(key, rawTo)],
                        OrNaN(read), R(rawTo.n),
                        optDuration(opts), optEasing(opts), optDelay(opts)),
             PropProbe(key, rawTo, read))

\* try { element.style[key] = rawTo } catch (e) { }: read says whether the host rejects
fallbackThrows(acc, key, rawTo, read) ==
    IF read.rejects THEN [acc EXCEPT !.tws = <<>>, !.probes = <<>>]
    ELSE [acc EXCEPT !.elem = setStyle(@, key, rawTo)]
fallbackKey(acc, key, rawTo, read) ==
    IF read.rejects THEN acc ELSE [acc EXCEPT !.elem = setStyle(@, key, rawTo)]

\* one key of props: the first kind its name, or else its target, matches
propKey(acc, el, key, rawTo, read, opts) ==
    IF key \in TransformKeys THEN transformKey(acc, el, key, rawTo, read, opts)
    ELSE IF key \in ColorKeys THEN colorKey(acc, el, key, rawTo, read, opts)
    ELSE IF key = "filterBlur" THEN blurKey(acc, el, key, rawTo, read, opts)
    ELSE IF key = "opacity" THEN opacityKey(acc, el, key, rawTo, read, opts)
    ELSE IF key = "value" THEN valueKey(acc, el, key, rawTo, read)
    ELSE IF numPx(rawTo) THEN numericKey(acc, el, key, rawTo, read, opts)
    ELSE fallbackKey(acc, key, rawTo, read)

\* Object.keys(props).forEach(...)
RECURSIVE forEachKey(_, _, _, _, _, _)
forEachKey(acc, el, keys, tos, reads, opts) ==
    IF keys = <<>> THEN acc
    ELSE forEachKey(propKey(acc, el, Head(keys), Head(tos), Head(reads), opts),
                    el, Tail(keys), Tail(tos), Tail(reads), opts)

RECURSIVE startEach(_, _)
startEach(s, ids) ==
    IF ids = <<>> THEN s ELSE startEach(start(s, Head(ids)), Tail(ids))

\* element.__anim_tweens.push(...tweens); tweens.forEach(t => t.start())
tweenStart(s, el, acc, ids) ==
    [s |-> startEach([s EXCEPT !.elems[el] = [acc.elem EXCEPT !.has_anim_tweens = TRUE,
                                                              !.anim_tweens = @ \o ids],
                               !.tweens = @ \o acc.tws,
                               !.log = @ \o [k \in 1..Len(acc.tws) |-> <<>>]],
                     ids),
     ids |-> ids, probes |-> acc.probes, ret |-> "handle"]

tweenRegister(s, el, acc) ==
    tweenStart(s, el, acc, [k \in 1..Len(acc.tws) |-> Len(s.tweens) + k])

tweenKeys(s, el, keys, tos, reads, opts) ==
    tweenRegister(s, el,
        forEachKey([elem |-> s.elems[el], tws |-> <<>>, probes |-> <<>>],
                   el, keys, tos, reads, opts))

\* the whole call; returns the machine state, the ids of the call's Tweens and
\* what their resolution read
\* if (!element || !element.style) return
absentOnlyNull(s, el) == el \notin DOMAIN s.elems
absent(s, el) == el \notin DOMAIN s.elems \/ ~s.elems[el].has_style

tween(s, el, keys, tos, reads, opts) ==
    IF absent(s, el)
    THEN [s |-> s, ids |-> <<>>, probes |-> <<>>, ret |-> "undefined"]
    ELSE tweenKeys(stopExisting(s, el), el, keys, tos, reads, opts)

\* the returned handle's stop(): stop each Tween of the call, splice it out of the list
RECURSIVE SeqWithout(_, _)
SeqWithout(q, x) ==
    IF q = <<>> THEN <<>>
    ELSE IF Head(q) = x THEN Tail(q)
    ELSE <<Head(q)>> \o SeqWithout(Tail(q), x)

spliceKeeps(s, el, i) == s
spliceOut(s, el, i) ==
    IF s.elems[el].has_anim_tweens
    THEN [s EXCEPT !.elems[el].anim_tweens = SeqWithout(@, i)]
    ELSE s

handleStopClears(s, el, ids) == stopEach(stopExisting(s, el), ids)
RECURSIVE handleStop(_, _, _)
handleStop(s, el, ids) ==
    IF ids = <<>> THEN s
    ELSE handleStop(spliceOut(stop(s, Head(ids)), el, Head(ids)), el, Tail(ids))

(***************************************************************************)
(* State machine.                                                          *)
(***************************************************************************)
Element(classes) ==
    [has_anim_transform |-> FALSE, anim_transform |-> <<>>, anim_keys |-> <<>>,
     has_anim_tweens |-> FALSE, anim_tweens |-> <<>>,
     has_style |-> TRUE, style_transform |-> EmptyStr, classList |-> classes,
     style |-> <<>>, has_value |-> FALSE, value |-> Null]

\* nothing constructed, requested or clicked yet
\* onEnterViewport registrations made at load, each on the selector that e1 and e2
\* match: "default" without options, "once" with {once: true}, "every" with
\* {once: false}; document.querySelectorAll(...).forEach(io.observe)
Registrations == {"default", "once", "every"}
Targets == <<"e1", "e2">>
Watching == [r \in Registrations |-> {"e1", "e2"}]

Blank ==
    /\ clock = 0
    /\ tweens = <<>>
    /\ rafMap = <<>>
    /\ batch = <<>>
    /\ nextHandle = 1
    /\ handles = <<>>
    /\ log = <<>>
    /\ probe = <<>>
    /\ stopRet = {}
    /\ calls = <<>>
    /\ clicks = <<>>
    /\ lastClick = 0
    /\ clickLog = <<>>
    /\ throttleLast = 0
    /\ throttleLog = <<>>
    /\ observed = Watching
    /\ visible = {}
    /\ viewLog = <<>>
    /\ pointer = "outside"
    /\ hoverLog = <<>>
    /\ endTick = Null

InitWith(els, classSets) ==
    /\ Blank
    /\ elems \in [els -> {Element(c) : c \in classSets}]

Commit(s) ==
    /\ tweens' = s.tweens
    /\ rafMap' = s.rafMap
    /\ nextHandle' = s.nextHandle
    /\ elems' = s.elems
    /\ log' = s.log

SeqSet(q) == {q[k] : k \in 1..Len(q)}

AnimateCommit(r, el, args) ==
    /\ Commit(r.s)
    /\ handles' = IF r.ret = "handle"
                  THEN Append(handles, [el |-> el, tweens |-> r.ids, call |-> Len(calls) + 1])
                  ELSE handles
    /\ probe' = probe \o r.probes
    /\ calls' = Append(calls, [el |-> el, keys |-> args.keys, tos |-> args.tos,
                               reads |-> args.reads, opts |-> args.opts, ret |-> r.ret,
                               tweens |-> r.ids, stopped |-> FALSE, stoppedAfter |-> 0])

\* a caller runs AnimEngine.tween(el, props, opts); reads[k] is what the computed
\* style returns for the transform when key k is resolved
Animate(el, keys, tos, reads, opts) ==
    /\ AnimateCommit(tween(S, el, keys, tos, reads, opts), el,
                     [keys |-> keys, tos |-> tos, reads |-> reads, opts |-> opts])
    /\ stopRet' = stopRet \cup
           (IF ~absent(S, el) /\ elems[el].has_anim_tweens
            THEN SeqSet(elems[el].anim_tweens) ELSE {})
    /\ UNCHANGED <<clock, batch, triggerVars>>

\* a caller runs the stop() of the handle returned by call c
HandleStop(c) ==
    /\ c \in 1..Len(handles)
    /\ Commit(handleStop(S, handles[c].el, handles[c].tweens))
    /\ stopRet' = stopRet \cup SeqSet(handles[c].tweens)
    /\ UNCHANGED <<clock, batch, handles, probe, calls, triggerVars>>

\* the same operation, observed: the call whose handle was stopped is marked, with
\* the number of calls made so far
HandleStopSeen(c) ==
    /\ c \in 1..Len(handles)
    /\ Commit(handleStop(S, handles[c].el, handles[c].tweens))
    /\ stopRet' = stopRet \cup SeqSet(handles[c].tweens)
    /\ calls' = [calls EXCEPT ![handles[c].call].stopped = TRUE,
                              ![handles[c].call].stoppedAfter = Len(calls)]
    /\ UNCHANGED <<clock, batch, handles, probe, triggerVars>>

\* the host begins a frame: the timestamp advances, the callbacks requested so far
\* are the ones this frame runs
Frame(dt) ==
    /\ batch = <<>>
    /\ clock + dt <= MaxTime
    /\ clock' = clock + dt
    /\ batch' = [k \in 1..Len(rafMap) |-> rafMap[k][1]]
    /\ UNCHANGED <<tweens, rafMap, nextHandle, elems, handles, log, probe, stopRet, calls,
                   triggerVars>>

\* the callback of handle h, unless it was cancelled since the frame began
runHandle(s, h, k, t) ==
    IF k = 0 THEN s
    ELSE loop([s EXCEPT !.rafMap = SeqRemove(@, h)], s.rafMap[k][2], t)

\* the host runs the next callback of the frame
RunCallback ==
    /\ batch # <<>>
    /\ batch' = Tail(batch)
    /\ Commit(runHandle(S, Head(batch),
                        Least({k \in 1..Len(rafMap) : rafMap[k][1] = Head(batch)}), clock))
    /\ UNCHANGED <<clock, handles, probe, stopRet, calls, triggerVars>>

\* milliseconds between two frames
FrameSteps == {1, 2}

Opts(duration, easing, delay) == [duration |-> duration, easing |-> easing, delay |-> delay]

Matrix(a, b, c, d, e, f) == <<Fn("matrix", <<R(a), R(b), R(c), R(d), R(e), R(f)>>)>>

\* the calls the callers of this model make: props, opts and, per key, what the
\* computed style returns for the transform
Call(keys, tos, reads, opts) == [keys |-> keys, tos |-> tos, reads |-> reads, opts |-> opts]
LifeCalls ==
    {Call(<<"translateX">>, <<3>>, <<NoneStr>>, Opts(Some(-1), Null, Null)),
     Call(<<"translateX">>, <<3>>, <<Matrix(1, 0, 0, 1, 50, 0)>>, Opts(Some(2), Null, Null)),
     Call(<<"translateX">>, <<0>>, <<NoneStr>>, Opts(Some(2), Null, Some(1))),
     Call(<<"scale", "rotate">>, <<0, 3>>, <<NoneStr, NoneStr>>, Opts(Some(0), Null, Some(1))),
     Call(<<"scale", "rotate">>, <<3, 0>>, <<NoneStr, NoneStr>>, Opts(Some(2), Null, Null))}

Init == InitWith({"e1"}, {{}})

Next ==
    \/ \E el \in DOMAIN elems, c \in LifeCalls :
           Len(handles) < MaxCalls /\ Animate(el, c.keys, c.tos, c.reads, c.opts)
    \/ \E c \in 1..MaxCalls : HandleStop(c)
    \/ \E dt \in FrameSteps : Frame(dt)
    \/ RunCallback

Spec == Init /\ [][Next]_vars

(***************************************************************************)
(* Cold start: the calls apply the start-value resolution to every         *)
(* transform channel against every form of rendered transform, on an       *)
(* element of each class the code knows.                                   *)
(***************************************************************************)
ColdStrings ==
    {EmptyStr, NoneStr,
     Matrix(1, 0, 0, 1, 50, 0), Matrix(2, 0, 0, 2, 0, 20),
     <<Fn("translateX", <<R(7)>>)>>,
     <<Fn("translate", <<R(7), R(8)>>)>>,
     <<Fn("translate3d", <<R(7), R(8), R(9)>>)>>,
     <<Fn("translateY", <<R(8)>>)>>,
     <<Fn("scale", <<R(2)>>)>>,
     <<Fn("rotate", <<R(30)>>)>>}

ColdKeys == {"translateX", "translateY", "translateZ", "scale", "scaleY", "rotate", "skewX"}

ColdClasses == {{}, {"menu-item-circle"}, {"menu-item-text"}}

InitCold == InitWith({"e1"}, ColdClasses)

NextCold ==
    \E el \in DOMAIN elems, key \in ColdKeys, str \in ColdStrings :
        /\ Len(handles) < MaxColdCalls
        /\ Animate(el, <<key>>, <<5>>, <<str>>, Opts(Some(2), Null, Null))

SpecCold == InitCold /\ [][NextCold]_vars

(***************************************************************************)
(* Observations the properties are stated over.                            *)
(***************************************************************************)
IsCallback(e) == e.ev # "wait"
IsUpdate(e) == e.ev = "update"
Emitted(l) == SelectSeq(l, IsCallback)
Updates(i) == SelectSeq(log[i], IsUpdate)
Last(q) == q[Len(q)]
Pending(i) == \E k \in 1..Len(rafMap) : rafMap[k][2] = i
Advancing(i) == Pending(i) /\ ~tweens[i]._stopped
CallOf(i) == CHOOSE c \in 1..Len(handles) : i \in SeqSet(handles[c].tweens)
LatestCall(el) ==
    CHOOSE c \in 1..Len(handles) :
        handles[c].el = el /\ \A d \in 1..Len(handles) : handles[d].el = el => d <= c
Anchor(i) == tweens[i]._start[1]
Span(i) == IMax(1, tweens[i].duration)
\* min(1, e / d) for whole e >= 0 and d >= 1
Progress(e, d) == IF e >= d THEN R(1) ELSE Norm(e, d)

(***************************************************************************)
(* C1: once a second animate() call on an element has returned, no Tween   *)
(* of an earlier call on that element emits another update or completion,  *)
(* and the Tweens of an element that are advancing all belong to the       *)
(* latest call on it.                                                      *)
(***************************************************************************)
C1_EarlierSilent ==
    \A c1 \in 1..Len(handles), c2 \in 1..Len(handles) :
        (c1 < c2 /\ handles[c1].el = handles[c2].el) =>
            \A i \in SeqSet(handles[c1].tweens) : Emitted(log'[i]) = Emitted(log[i])
C1_OneGeneration ==
    \A i \in DOMAIN tweens : Advancing(i) => CallOf(i) = LatestCall(tweens[i].el)
C1_LaterCallSilencesEarlier == []C1_OneGeneration /\ [][C1_EarlierSilent]_vars

C1_Witness ==
    \E i \in DOMAIN tweens, j \in DOMAIN tweens :
        /\ tweens[i].el = tweens[j].el
        /\ CallOf(i) < CallOf(j)
        /\ Len(Updates(i)) > 0
        /\ ~\E k \in 1..Len(log[i]) : log[i][k].ev = "complete"
        /\ Len(Updates(j)) > 0
        /\ Last(log[j]).t > Last(log[i]).t

(***************************************************************************)
(* C2: after stop() has returned on a Tween, the Tween fires neither       *)
(* onUpdate nor onComplete on any later frame; one stopped before its      *)
(* first tick never fires a callback.                                      *)
(***************************************************************************)
C2_StoppedIsSilent ==
    [][\A i \in stopRet : Emitted(log'[i]) = Emitted(log[i])]_vars

C2_Witness ==
    \E i \in stopRet, j \in DOMAIN tweens :
        /\ log[i] = <<>>
        /\ j > i
        /\ Len(Updates(j)) > 0

(***************************************************************************)
(* C3: a Tween that is never stopped fires onUpdate on every tick at or    *)
(* after its anchor; the update with raw progress 1 is immediately         *)
(* followed by the one onComplete, and nothing follows that.               *)
(***************************************************************************)
C3_Inv ==
    \A i \in DOMAIN tweens \ stopRet :
        \A k \in 1..Len(log[i]) :
            /\ log[i][k].ev = "complete" =>
                   /\ k = Len(log[i])
                   /\ k > 1
                   /\ log[i][k - 1].ev = "update"
                   /\ log[i][k - 1].raw = R(1)
                   /\ log[i][k - 1].t = log[i][k].t
            /\ (log[i][k].ev = "update" /\ log[i][k].raw = R(1)) =>
                   /\ k < Len(log[i])
                   /\ log[i][k + 1].ev = "complete"
            /\ (log[i][k].ev = "update" /\ log[i][k].raw # R(1) /\ k = Len(log[i])) =>
                   Pending(i)
C3_Tick ==
    \A i \in DOMAIN tweens \ stopRet :
        (/\ batch # <<>>
         /\ batch' = Tail(batch)
         /\ <<Head(batch), i>> \in SeqSet(rafMap)) =>
            /\ tweens'[i]._start # Null
            /\ clock >= tweens'[i]._start[1] =>
                   /\ Len(log'[i]) > Len(log[i])
                   /\ log'[i][Len(log[i]) + 1].ev = "update"
                   /\ log'[i][Len(log[i]) + 1].t = clock
C3_UpdatesThenCompletesOnce == []C3_Inv /\ [][C3_Tick]_vars

C3_Witness ==
    \E i \in DOMAIN tweens \ stopRet :
        /\ Len(log[i]) >= 4
        /\ Last(log[i]).ev = "complete"
        /\ Len(Updates(i)) >= 3

(***************************************************************************)
(* C4 as stated: a Tween with duration zero or negative fires exactly one  *)
(* onUpdate in its life, at raw progress 1, and never one below 1.         *)
(***************************************************************************)
C4_Original ==
    \A i \in DOMAIN tweens :
        tweens[i].duration <= 0 =>
            /\ Len(Updates(i)) <= 1
            /\ \A k \in 1..Len(log[i]) : log[i][k].ev = "update" => log[i][k].raw = R(1)

(***************************************************************************)
(* C4 as amended: a Tween with duration zero or negative runs as one of    *)
(* duration 1 ms.  A tick exactly at the anchor (with no delay, always the *)
(* first tick) fires an update with raw progress 0; the first tick at      *)
(* least 1 ms after the anchor fires the only update with raw progress 1,  *)
(* which onComplete follows and which ends the Tween's life.               *)
(***************************************************************************)
C4_ZeroDurationRunsOneMs ==
    \A i \in DOMAIN tweens :
        tweens[i].duration <= 0 =>
            /\ \A k \in 1..Len(log[i]) :
                   log[i][k].ev = "update" =>
                       /\ log[i][k].raw = Progress(log[i][k].t - Anchor(i), 1)
                       /\ log[i][k].raw = R(1) =>
                              /\ k + 1 = Len(log[i])
                              /\ log[i][k + 1].ev = "complete"
            /\ (tweens[i].delay = 0 /\ log[i] # <<>>) =>
                   /\ log[i][1].ev = "update"
                   /\ log[i][1].raw = R(0)

C4_Witness ==
    \E i \in DOMAIN tweens :
        /\ tweens[i].duration <= 0
        /\ tweens[i].delay = 0
        /\ Len(log[i]) = 3
        /\ log[i][1].raw = R(0)
        /\ log[i][2].raw = R(1)
        /\ log[i][3].ev = "complete"

(***************************************************************************)
(* C5: the anchor of a Tween with delay d is the time of its first tick    *)
(* plus d; a tick before the anchor only reschedules the Tween and fires   *)
(* no callback; every callback fires at or after the anchor, with raw      *)
(* progress computed from the time elapsed since the anchor.               *)
(***************************************************************************)
C5_AnchorIsFirstTickPlusDelay ==
    \A i \in DOMAIN tweens :
        log[i] # <<>> =>
            /\ tweens[i]._start = Some(log[i][1].t + tweens[i].delay)
            /\ \A k \in 1..Len(log[i]) :
                   /\ log[i][k].ev = "wait" <=> log[i][k].t < Anchor(i)
                   /\ log[i][k].ev = "update" =>
                          log[i][k].raw = Progress(log[i][k].t - Anchor(i), Span(i))
            /\ (Last(log[i]).ev = "wait" /\ i \notin stopRet) => Pending(i)

C5_Witness ==
    \E i \in DOMAIN tweens :
        /\ tweens[i].delay > 0
        /\ Len(log[i]) >= 3
        /\ log[i][1].ev = "wait"
        /\ Last(log[i]).ev = "update"
        /\ Last(log[i]).t > Anchor(i)

(***************************************************************************)
(* C6: for a numeric Tween with linear easing and duration >= 1, an        *)
(* onUpdate at elapsed time e since the anchor reports raw progress        *)
(* min(1, e/duration), within [0, 1], and the value                        *)
(* from + (to - from) * min(1, e/duration); a tick after the end of the    *)
(* duration reports exactly `to`.                                          *)
(***************************************************************************)
C6_LinearValue ==
    \A i \in DOMAIN tweens :
        (tweens[i].easing = "linear" /\ tweens[i].duration >= 1) =>
            \A k \in 1..Len(log[i]) :
                log[i][k].ev = "update" =>
                    /\ RLe(R(0), log[i][k].raw) /\ RLe(log[i][k].raw, R(1))
                    /\ log[i][k].raw = Progress(log[i][k].t - Anchor(i), tweens[i].duration)
                    /\ log[i][k].val =
                           RAdd(tweens[i].from,
                                RMul(RSub(tweens[i].to, tweens[i].from),
                                     Progress(log[i][k].t - Anchor(i), tweens[i].duration)))
                    /\ log[i][k].t - Anchor(i) >= tweens[i].duration =>
                           log[i][k].val = tweens[i].to

C6_Witness ==
    \E i \in DOMAIN tweens :
        /\ tweens[i].duration = 2
        /\ tweens[i].from # tweens[i].to
        /\ \E k \in 1..Len(log[i]) : log[i][k].ev = "update" /\ log[i][k].raw = <<1, 2>>
        /\ \E k \in 1..Len(log[i]) :
               log[i][k].ev = "update" /\ log[i][k].t - Anchor(i) > tweens[i].duration

(***************************************************************************)
(* C7: when animate() names a transform channel that has a value in the    *)
(* element's channel cache, the new Tween starts from exactly that value,  *)
(* whatever the element's rendered transform says.                         *)
(***************************************************************************)
C7_StartsFromCache ==
    \A i \in DOMAIN tweens :
        (tweens[i].kind = "transform" /\ probe[i].cached) =>
            tweens[i].from = probe[i].map[tweens[i].meta]

C7_Witness ==
    \E i \in DOMAIN tweens :
        /\ probe[i].cached
        /\ probe[i].existing = Matrix(1, 0, 0, 1, 50, 0)
        /\ tweens[i].from[2] # 1
        /\ tweens[i].from # R(50)

(***************************************************************************)
(* Cold start: what a rendered transform string says about a channel.      *)
(***************************************************************************)
\* the transform function fn carries a component for channel key
Carries(key, fn) ==
    CASE key = "translateX" -> fn \in {"translateX", "translate", "translate3d", "matrix"}
      [] key = "translateY" -> fn \in {"translateY", "translate", "translate3d", "matrix"}
      [] key = "translateZ" -> fn \in {"translateZ", "translate3d"}
      [] key = "scale" -> fn \in {"scale", "matrix"}
      [] key = "scaleX" -> fn \in {"scale", "scaleX", "matrix"}
      [] key = "scaleY" -> fn \in {"scale", "scaleY", "matrix"}
      [] key = "rotate" -> fn \in {"rotate", "matrix"}
      [] OTHER -> fn \in {key, "matrix"}
NoComponent(key, str) == \A k \in 1..Len(str) : ~Carries(key, str[k].fn)
Cold(i) == tweens[i].kind = "transform" /\ ~probe[i].cached
IsMatrix(str) == Len(str) = 1 /\ str[1].fn = "matrix" /\ Len(str[1].args) = 6
SemanticDefault(key) == IF key \in {"scale", "scaleX", "scaleY"} THEN R(1) ELSE R(0)

(***************************************************************************)
(* C8 as stated: for every element, a channel with no cached value and no  *)
(* component in the rendered transform starts from 1 (scale, scaleX,       *)
(* scaleY) or 0 (every other channel).                                     *)
(***************************************************************************)
C8_Original ==
    \A i \in DOMAIN tweens :
        (Cold(i) /\ NoComponent(tweens[i].meta, probe[i].existing)) =>
            tweens[i].from = SemanticDefault(tweens[i].meta)

(***************************************************************************)
(* C8 as amended: such a channel starts from 1 (scale, scaleX, scaleY) or  *)
(* 0 (every other channel), except that on an element of class             *)
(* menu-item-circle scale, scaleX and scaleY start from 0 and on an        *)
(* element of class menu-item-text translateX starts from -14.             *)
(***************************************************************************)
C8_DefaultUnlessClass ==
    \A i \in DOMAIN tweens :
        (Cold(i) /\ NoComponent(tweens[i].meta, probe[i].existing)) =>
            tweens[i].from =
                IF tweens[i].meta \in {"scale", "scaleX", "scaleY"}
                       /\ "menu-item-circle" \in probe[i].classList
                THEN R(0)
                ELSE IF tweens[i].meta = "translateX" /\ "menu-item-text" \in probe[i].classList
                THEN R(-14)
                ELSE SemanticDefault(tweens[i].meta)

C8_Witness ==
    /\ \E i \in DOMAIN tweens :
           /\ Cold(i)
           /\ probe[i].existing = <<Fn("rotate", <<R(30)>>)>>
           /\ tweens[i].meta = "scaleY"
           /\ tweens[i].from = R(1)
    /\ \E i \in DOMAIN tweens :
           /\ Cold(i)
           /\ probe[i].existing = NoneStr
           /\ tweens[i].meta = "skewX"
           /\ tweens[i].from = R(0)

(***************************************************************************)
(* C9: with no cached value, an element whose rendered transform is        *)
(* matrix(a,b,c,d,e,f) starts a translateX animation from e.               *)
(***************************************************************************)
C9_TranslateXFromMatrix ==
    \A i \in DOMAIN tweens :
        (Cold(i) /\ tweens[i].meta = "translateX" /\ IsMatrix(probe[i].existing)) =>
            tweens[i].from = probe[i].existing[1].args[5]

(***************************************************************************)
(* C10: with no cached value, a rendered matrix(a,b,c,d,e,f) starts        *)
(* translateY from f and scale from a (when b = 0); a rendered             *)
(* translateY(n) or translate3d(x,y,z) starts translateY from n or y.      *)
(***************************************************************************)
C10_OtherChannelsFromRendered ==
    \A i \in DOMAIN tweens :
        Cold(i) =>
            /\ (tweens[i].meta = "translateY" /\ IsMatrix(probe[i].existing)) =>
                   tweens[i].from = probe[i].existing[1].args[6]
            /\ (tweens[i].meta = "scale" /\ IsMatrix(probe[i].existing)
                    /\ probe[i].existing[1].args[2] = R(0)) =>
                   tweens[i].from = probe[i].existing[1].args[1]
            /\ (tweens[i].meta = "translateY"
                    /\ probe[i].existing = <<Fn("translateY", <<R(8)>>)>>) =>
                   tweens[i].from = R(8)
            /\ (tweens[i].meta = "translateY"
                    /\ probe[i].existing = <<Fn("translate3d", <<R(7), R(8), R(9)>>)>>) =>
                   tweens[i].from = R(8)

(***************************************************************************)
(* Request order: two elements receive the same channels in different      *)
(* orders, across calls and within one call, and run to their targets.     *)
(***************************************************************************)
MaxOrderCalls == 3

OrderCalls ==
    {Call(<<"rotate">>, <<3>>, <<NoneStr>>, Opts(Some(1), Null, Null)),
     Call(<<"scale">>, <<2>>, <<NoneStr>>, Opts(Some(1), Null, Null)),
     Call(<<"translateY">>, <<5>>, <<NoneStr>>, Opts(Some(1), Null, Null)),
     Call(<<"scale", "rotate">>, <<2, 3>>, <<NoneStr, NoneStr>>, Opts(Some(1), Null, Null)),
     Call(<<"rotate", "scale">>, <<3, 2>>, <<NoneStr, NoneStr>>, Opts(Some(1), Null, Null))}

InitOrder == InitWith({"e1", "e2"}, {{}})

NextOrder ==
    \/ \E el \in DOMAIN elems, c \in OrderCalls :
           Len(handles) < MaxOrderCalls /\ Animate(el, c.keys, c.tos, c.reads, c.opts)
    \/ Frame(2)
    \/ RunCallback

SpecOrder == InitOrder /\ [][NextOrder]_vars

\* the groups of a rendered transform, in the order the composer promises
GroupOrder == <<"translate3d", "scale", "scaleX", "scaleY", "rotate", "skewX", "skewY">>
GroupIndex(fn) == Least({k \in 1..Len(GroupOrder) : GroupOrder[k] = fn})
InGroupOrder(str) ==
    \A j, k \in 1..Len(str) : j < k => 0 < GroupIndex(str[j].fn) /\ GroupIndex(str[j].fn) < GroupIndex(str[k].fn)

(***************************************************************************)
(* C11: the rendered transform string depends only on the cached channels  *)
(* and their values, never on the order in which they were requested: two  *)
(* elements with equal caches have identical rendered strings, and the     *)
(* groups of every rendered string come in the order translate3d, scale,   *)
(* scaleX, scaleY, rotate, skewX, skewY.                                   *)
(***************************************************************************)
C11_RenderedIgnoresRequestOrder ==
    /\ \A a, b \in DOMAIN elems :
           (elems[a].has_anim_transform /\ elems[b].has_anim_transform
                /\ elems[a].anim_transform = elems[b].anim_transform) =>
               elems[a].style_transform = elems[b].style_transform
    /\ \A a \in DOMAIN elems : InGroupOrder(elems[a].style_transform)

C11_Witness ==
    \E a, b \in DOMAIN elems :
        /\ elems[a].anim_keys = <<"rotate", "scale">>
        /\ elems[b].anim_keys = <<"scale", "rotate">>
        /\ elems[a].anim_transform = elems[b].anim_transform
        /\ elems[a].anim_transform["rotate"] = R(3)
        /\ elems[a].style_transform = <<Fn("scale", <<R(2)>>), Fn("rotate", <<R(3)>>)>>
        /\ elems[b].style_transform = elems[a].style_transform

(***************************************************************************)
(* The guard of AnimEngine.tween: calls on an element with a style, on one *)
(* without a style surface and on no element at all, while Tweens run.     *)
(***************************************************************************)
MaxGuardCalls == 3

Styleless == [Element({}) EXCEPT !.has_style = FALSE]

GuardCalls ==
    {Call(<<"translateX">>, <<3>>, <<NoneStr>>, Opts(Some(2), Null, Null)),
     Call(<<"scale", "rotate">>, <<3, 0>>, <<NoneStr, NoneStr>>, Opts(Null, Null, Some(1)))}

InitGuard == Blank /\ elems = [e \in {"e1", "e2"} |-> IF e = "e1" THEN Element({}) ELSE Styleless]

NextGuard ==
    \/ \E el \in {"e1", "e2", "null"}, c \in GuardCalls :
           Len(calls) < MaxGuardCalls /\ Animate(el, c.keys, c.tos, c.reads, c.opts)
    \/ \E dt \in FrameSteps : Frame(dt)
    \/ RunCallback

SpecGuard == InitGuard /\ [][NextGuard]_vars

\* the step is a call of AnimEngine.tween with no element or no style surface
GuardedCall ==
    /\ Len(calls') = Len(calls) + 1
    /\ Last(calls').el \notin DOMAIN elems \/ ~elems[Last(calls').el].has_style

(***************************************************************************)
(* C12: AnimEngine.tween called with no element, or with an element that   *)
(* has no style surface, returns undefined, constructs no Tween, requests  *)
(* no frame, and leaves every cache, every active-tween list and every     *)
(* running Tween as it was.                                                *)
(***************************************************************************)
C12_AbsentElementIsNoOp ==
    [][GuardedCall =>
           /\ Last(calls').ret = "undefined"
           /\ Last(calls').tweens = <<>>
           /\ UNCHANGED <<tweens, rafMap, nextHandle, elems, handles, log, stopRet>>]_vars

C12_Witness ==
    /\ \E c \in DOMAIN calls : calls[c].el = "null" /\ calls[c].ret = "undefined"
    /\ \E c \in DOMAIN calls :
           /\ calls[c].el = "e2" /\ calls[c].ret = "undefined"
           /\ \E b \in 1..(c - 1) : calls[b].ret = "handle"
           /\ \E i \in DOMAIN tweens : Advancing(i) /\ \E k \in DOMAIN log[i] : log[i][k].t > 0
    /\ elems["e2"] = Styleless

(***************************************************************************)
(* The returned handle: calls of one and of two Tweens, stopped through    *)
(* their handles between frames and in the middle of a frame.              *)
(***************************************************************************)
MaxHandleCalls == 2

HandleCalls ==
    {Call(<<"translateX">>, <<0>>, <<NoneStr>>, Opts(Some(2), Null, Some(1))),
     Call(<<"scale", "rotate">>, <<3, 0>>, <<NoneStr, NoneStr>>, Opts(Some(2), Null, Null))}

NextHandle ==
    \/ \E el \in DOMAIN elems, c \in HandleCalls :
           Len(handles) < MaxHandleCalls /\ Animate(el, c.keys, c.tos, c.reads, c.opts)
    \/ \E c \in 1..MaxHandleCalls : HandleStopSeen(c)
    \/ \E dt \in FrameSteps : Frame(dt)
    \/ RunCallback

SpecHandle == Init /\ [][NextHandle]_vars

(***************************************************************************)
(* C13: once the stop() of the handle an AnimEngine.tween call returned    *)
(* has returned, no Tween that call constructed fires another update or    *)
(* completion, and none of them is on the element's active-tween list.     *)
(***************************************************************************)
HandleStopped(c) == calls[c].ret = "handle" /\ calls[c].stopped

C13_OffTheList ==
    \A c \in DOMAIN calls :
        HandleStopped(c) =>
            \A k \in DOMAIN calls[c].tweens :
                /\ calls[c].tweens[k] \notin SeqSet(elems[calls[c].el].anim_tweens)
                /\ ~Pending(calls[c].tweens[k])

C13_Silent ==
    \A c \in DOMAIN calls :
        HandleStopped(c) =>
            \A k \in DOMAIN calls[c].tweens :
                Emitted(log'[calls[c].tweens[k]]) = Emitted(log[calls[c].tweens[k]])

C13_HandleStopEndsTheCall == []C13_OffTheList /\ [][C13_Silent]_vars

C13_Witness ==
    \E c \in DOMAIN calls :
        /\ HandleStopped(c)
        /\ Len(calls[c].tweens) = 2
        /\ \A k \in DOMAIN calls[c].tweens :
               /\ Updates(calls[c].tweens[k]) # <<>>
               /\ \A j \in DOMAIN log[calls[c].tweens[k]] :
                      /\ log[calls[c].tweens[k]][j].ev # "complete"
                      /\ log[calls[c].tweens[k]][j].t < clock
        /\ batch = <<>>

(***************************************************************************)
(* Colour animations: each colour key, against each form of target and of  *)
(* current colour.                                                         *)
(***************************************************************************)
MaxColorCalls == 1

Half == <<1, 2>>

ColorTargets ==
    {RgbaText(0, 0, 0, Half), RgbaText(200, 100, 50, Half), RgbText(200, 100, 50),
     HexText(200, 100, 50), BadText}

ColorReads ==
    {EmptyText, RgbText(10, 20, 30), RgbaText(10, 20, 30, R(0)), RgbaText(10, 20, 30, Half),
     BadText}

NextColor ==
    \/ \E key \in ColorKeys, to \in ColorTargets, read \in ColorReads :
           /\ Len(calls) < MaxColorCalls
           /\ Animate("e1", <<key>>, <<to>>, <<read>>, Opts(Some(2), Null, Null))
    \/ \E dt \in FrameSteps : Frame(dt)
    \/ RunCallback

SpecColor == Init /\ [][NextColor]_vars

\* a colour as the four numbers it denotes
Sem(t) == <<t.r, t.g, t.b, alphaOf(t)>>
WellFormed(t) == t.form \in {"hex", "rgb", "rgba"}
IsColorTween(i) == tweens[i].kind \in {"rgba", "color"}
\* the colour the element's style holds for the key of Tween i
Shown(i) == elems[tweens[i].el].style[probe[i].key]
\* Tween i is live and its latest update had raw progress r
LastUpdateAt(i, r) ==
    /\ ~tweens[i]._stopped
    /\ Updates(i) # <<>>
    /\ Last(Updates(i)).raw = r
\* the start colour: the current colour, or the target's RGB with alpha 0 when the
\* current colour is fully transparent
StartColor(read, rawTo) ==
    IF alphaOf(read) = R(0) THEN <<rawTo.r, rawTo.g, rawTo.b, R(0)>> ELSE Sem(read)
OpaqueBlack == <<R(0), R(0), R(0), R(1)>>

(***************************************************************************)
(* C14: for a colour animation from start colour F to target colour T, the *)
(* colour written at progress 0 is exactly F, alpha included, and the      *)
(* colour written at progress 1 is exactly T in R, G, B and alpha.         *)
(***************************************************************************)
C14_ColorEndpointsExact ==
    \A i \in DOMAIN tweens :
        (IsColorTween(i) /\ WellFormed(probe[i].read) /\ WellFormed(probe[i].rawTo)) =>
            /\ LastUpdateAt(i, R(0)) => Sem(Shown(i)) = StartColor(probe[i].read, probe[i].rawTo)
            /\ LastUpdateAt(i, R(1)) => Sem(Shown(i)) = Sem(probe[i].rawTo)

(***************************************************************************)
(* C15: for each of backgroundColor, color and borderColor, a target with  *)
(* an alpha channel makes every tick write an rgba(r,g,b,a) value, and the *)
(* last written alpha is the target's alpha.                               *)
(***************************************************************************)
C15_RgbaTargetKeepsAlpha ==
    \A i \in DOMAIN tweens :
        (IsColorTween(i) /\ probe[i].rawTo.form = "rgba" /\ ~tweens[i]._stopped
             /\ Updates(i) # <<>>) =>
            /\ Shown(i).form = "rgba"
            /\ LastUpdateAt(i, R(1)) => Shown(i).a = probe[i].rawTo.a

(***************************************************************************)
(* C16: a current colour or a target colour that matches no recognized     *)
(* pattern is replaced by opaque black, and the animation still runs.      *)
(***************************************************************************)
C16_MalformedIsOpaqueBlack ==
    \A i \in DOMAIN tweens :
        IsColorTween(i) =>
            /\ (~WellFormed(probe[i].read) /\ LastUpdateAt(i, R(0))) =>
                   Sem(Shown(i)) = OpaqueBlack
            /\ (~WellFormed(probe[i].rawTo) /\ LastUpdateAt(i, R(1))) =>
                   Sem(Shown(i)) = OpaqueBlack

(***************************************************************************)
(* Every kind of property in one call, the fallback with a host that       *)
(* accepts or rejects the assignment, and numeric targets with and without *)
(* the px unit.                                                            *)
(***************************************************************************)
MaxPropCalls == 1

HasValue == [Element({}) EXCEPT !.has_value = TRUE]

Rejects(b) == [rejects |-> b]

AllKinds(opts) ==
    Call(<<"translateX", "color", "filterBlur", "display", "opacity", "value", "width">>,
         <<3, RgbText(200, 100, 50), NumText(4, FALSE), Word("none"), NumText(1, FALSE),
           Word("none"), NumText(10, FALSE)>>,
         <<NoneStr, RgbText(10, 20, 30), Null, Rejects(FALSE), Null, Null, Some(R(4))>>,
         opts)

PropCalls ==
    {AllKinds(Opts(Null, Null, Null)),
     AllKinds(Opts(Some(2), Some("easeOutQuad"), Some(1)))}
    \cup {Call(<<"display", "opacity">>, <<Word("flex"), NumText(1, FALSE)>>,
               <<Rejects(b), Null>>, Opts(Some(2), Null, Null)) : b \in BOOLEAN}
    \cup {Call(<<"opacity", "display">>, <<NumText(1, FALSE), Word("flex")>>,
               <<Null, Rejects(b)>>, Opts(Some(2), Null, Null)) : b \in BOOLEAN}
    \cup {Call(<<key>>, <<NumText(10, px)>>, <<Some(R(4))>>, Opts(Some(2), Null, Null)) :
              key \in {"width", "top", "letterSpacing"}, px \in BOOLEAN}
    \cup {Call(<<"lineHeight">>, <<NumText(10, FALSE)>>, <<Null>>, Opts(Some(2), Null, Null))}

InitProps ==
    /\ Blank
    /\ elems = [e \in {"e1", "e2", "sideMenu"} |-> IF e = "e2" THEN HasValue ELSE Element({})]

NextProps ==
    \/ \E el \in {"e1", "e2"}, c \in PropCalls :
           Len(calls) < MaxPropCalls /\ Animate(el, c.keys, c.tos, c.reads, c.opts)
    \/ \E dt \in FrameSteps : Frame(dt)
    \/ RunCallback

SpecProps == InitProps /\ [][NextProps]_vars

\* the step is a call of AnimEngine.tween that returned a handle
ReturnsHandle == Len(calls') = Len(calls) + 1 /\ Last(calls').ret = "handle"
\* key k of call c matches none of the animated kinds
IsFallback(c, k) ==
    /\ c.keys[k] \notin TransformKeys \cup ColorKeys \cup {"filterBlur", "opacity", "value"}
    /\ c.tos[k].form # "num"
StyleAt(st, key) == IF key \in DOMAIN st THEN Some(st[key]) ELSE Null
\* when the call returns, Tween j is on the element's list and has a frame requested
RegisteredAndStarted(c, j) ==
    /\ j \in SeqSet(elems'[c.el].anim_tweens)
    /\ tweens'[j]._raf # Null
    /\ \E k \in 1..Len(rafMap') : rafMap'[k] = <<tweens'[j]._raf[1], j>>

(***************************************************************************)
(* C17: a property that matches none of the animated kinds is assigned to  *)
(* the style inside the call; if the host rejects the assignment the style *)
(* keeps what it had, the call still returns a handle, and every other     *)
(* property of the call has its Tween constructed, registered and started. *)
(***************************************************************************)
C17_Step ==
    ReturnsHandle =>
        /\ \A k \in DOMAIN Last(calls').keys :
               IsFallback(Last(calls'), k) =>
                   StyleAt(elems'[Last(calls').el].style, Last(calls').keys[k]) =
                       IF Last(calls').reads[k].rejects
                       THEN StyleAt(elems[Last(calls').el].style, Last(calls').keys[k])
                       ELSE Some(Last(calls').tos[k])
        /\ Len(Last(calls').tweens) =
               Cardinality({k \in DOMAIN Last(calls').keys : ~IsFallback(Last(calls'), k)})
        /\ \A n \in DOMAIN Last(calls').tweens :
               RegisteredAndStarted(Last(calls'), Last(calls').tweens[n])

C17_FallbackAssignsAndContinues ==
    /\ [](\A c \in DOMAIN calls : calls[c].ret = "handle")
    /\ [][C17_Step]_vars

C17_Witness ==
    \E c \in DOMAIN calls :
        /\ calls[c].keys = <<"display", "opacity">>
        /\ calls[c].reads[1].rejects
        /\ "display" \notin DOMAIN elems[calls[c].el].style
        /\ Len(calls[c].tweens) = 1
        /\ LastUpdateAt(calls[c].tweens[1], R(1))

(***************************************************************************)
(* C18 as stated: every Tween a call constructs carries the call's         *)
(* duration, easing and delay (400, linear, 0 when omitted), is on the     *)
(* element's active-tween list and has been started when the call returns. *)
(***************************************************************************)
CarriesOpts(tw, opts) ==
    /\ tw.duration = (IF opts.duration = Null THEN 400 ELSE opts.duration[1])
    /\ tw.easing = (IF opts.easing = Null THEN "linear" ELSE opts.easing[1])
    /\ tw.delay = (IF opts.delay = Null THEN 0 ELSE opts.delay[1])

C18_OriginalStep ==
    ReturnsHandle =>
        \A n \in DOMAIN Last(calls').tweens :
            /\ CarriesOpts(tweens'[Last(calls').tweens[n]], Last(calls').opts)
            /\ RegisteredAndStarted(Last(calls'), Last(calls').tweens[n])

C18_Original == [][C18_OriginalStep]_vars

(***************************************************************************)
(* C18 as amended: the same, except that the Tween of the key 'value'      *)
(* always has duration 1, linear easing and delay 0, whatever the options. *)
(***************************************************************************)
C18_Step ==
    ReturnsHandle =>
        \A n \in DOMAIN Last(calls').tweens :
            /\ IF tweens'[Last(calls').tweens[n]].kind = "value"
               THEN CarriesOpts(tweens'[Last(calls').tweens[n]],
                                Opts(Some(1), Some("linear"), Some(0)))
               ELSE CarriesOpts(tweens'[Last(calls').tweens[n]], Last(calls').opts)
            /\ RegisteredAndStarted(Last(calls'), Last(calls').tweens[n])

C18_SharedOptionsExceptValue == [][C18_Step]_vars

C18_Witness ==
    \E c \in DOMAIN calls :
        /\ calls[c].opts = Opts(Some(2), Some("easeOutQuad"), Some(1))
        /\ Len(calls[c].tweens) = 6
        /\ \E n \in DOMAIN calls[c].tweens :
               /\ tweens[calls[c].tweens[n]].kind = "value"
               /\ tweens[calls[c].tweens[n]].duration = 1
        /\ \E n \in DOMAIN calls[c].tweens :
               /\ tweens[calls[c].tweens[n]].kind = "filterBlur"
               /\ tweens[calls[c].tweens[n]].delay = 1
               /\ tweens[calls[c].tweens[n]].easing = "easeOutQuad"

(***************************************************************************)
(* C19 as stated: for a key of none of the special kinds whose target is a *)
(* bare number or an "Npx" string, every value written is the interpolated *)
(* number, with px appended exactly when the target carried the px unit.   *)
(***************************************************************************)
IsNumeric(i) == tweens[i].kind = "numeric" /\ ~tweens[i]._stopped /\ Updates(i) # <<>>
Interpolated(i) ==
    lerp(OrNaN(probe[i].read), R(probe[i].rawTo.n),
         Easings(tweens[i].easing, Last(Updates(i)).raw))

C19_Original ==
    \A i \in DOMAIN tweens :
        IsNumeric(i) => Shown(i) = Written(Interpolated(i), probe[i].rawTo.px)

(***************************************************************************)
(* C19 as amended: px is appended when the target carried the px unit or   *)
(* the key is width, height, top or left; otherwise the number is written  *)
(* without a unit.                                                         *)
(***************************************************************************)
C19_PxFromTargetOrBoxKey ==
    \A i \in DOMAIN tweens :
        IsNumeric(i) =>
            Shown(i) = Written(Interpolated(i),
                               probe[i].rawTo.px
                                   \/ probe[i].key \in {"width", "height", "top", "left"})

C19_Witness ==
    \E i \in DOMAIN tweens :
           /\ IsNumeric(i) /\ probe[i].key = "width" /\ ~probe[i].rawTo.px
           /\ LastUpdateAt(i, Half)
           /\ Shown(i) = Written(R(7), TRUE)

(***************************************************************************)
(* AnimEngine.onDoubleClick(selectorOrElement, handler, timeout = 300),    *)
(* registered once with a selector that e1 and e2 match and once on the    *)
(* element e1.  clock is what performance.now() returns.                   *)
(***************************************************************************)
Timeout == 300
MaxClicks == 3
MaxClickTime == 1000

Matching == {"e1", "e2"}
Direct == "e1"

\* clicks.get(el) || 0
lastOf(m, el) == IF el \in DOMAIN m THEN m[el] ELSE 0

\* selector form: if (t - last <= timeout) { clicks.set(el, 0); handler(el, e) }
\* else clicks.set(el, t)
selectorRuns(m, el, t) == t - lastOf(m, el) <= Timeout
selectorListener(m, el, t) == (el :> IF selectorRuns(m, el, t) THEN 0 ELSE t) @@ m

\* element form: if (t - last <= timeout) handler(selectorOrElement, e); last = t
elementRuns(last, t) == t - last <= Timeout

Clicked(form, el, t, ran) == [form |-> form, el |-> el, t |-> t, ran |-> ran]

\* what the listeners that see a click on target append to the observation
heard(target, t) ==
    (IF target \in Matching
     THEN <<Clicked("selector", target, t, selectorRuns(clicks, target, t))>> ELSE <<>>)
    \o (IF target = Direct
        THEN <<Clicked("element", target, t, elementRuns(lastClick, t))>> ELSE <<>>)

\* a click event on target, some time after the page has loaded: the document's
\* listener runs if target.closest(selector) finds an element, the element's own
\* listener if target is that element
Click(target) ==
    /\ clock > 0
    /\ Len(clickLog) < 2 * MaxClicks
    /\ clicks' = IF target \in Matching THEN selectorListener(clicks, target, clock) ELSE clicks
    /\ lastClick' = IF target = Direct THEN clock ELSE lastClick
    /\ clickLog' = clickLog \o heard(target, clock)
    /\ UNCHANGED <<clock, animVars, throttleVars, viewVars, hoverVars, floatVars>>

\* time passes between clicks
ClickGaps == {100, 250, 400}
Wait(dt) ==
    /\ clock + dt <= MaxClickTime
    /\ clock' = clock + dt
    /\ UNCHANGED <<animVars, triggerVars>>

NextClick ==
    \/ \E target \in {"e1", "e2", "other"} : Click(target)
    \/ \E dt \in ClickGaps : Wait(dt)

SpecClick == Init /\ [][NextClick]_vars

\* the clicks one listener has heard on one element, in order
IsOf(form, el, c) == c.form = form /\ c.el = el
HeardE1S(c) == IsOf("selector", "e1", c)
HeardE2S(c) == IsOf("selector", "e2", c)
HeardE1E(c) == IsOf("element", "e1", c)
Histories ==
    {SelectSeq(clickLog, HeardE1S), SelectSeq(clickLog, HeardE2S), SelectSeq(clickLog, HeardE1E)}

(***************************************************************************)
(* C20: onDoubleClick with timeoutMs = 300, in the selector form and in    *)
(* the element form: of two clicks on the same element 250 ms apart the    *)
(* handler runs exactly once, on the second; of two clicks 400 ms apart it *)
(* runs on neither.                                                        *)
(***************************************************************************)
C20_TwoClicks ==
    \A h \in Histories :
        Len(h) = 2 =>
            /\ h[2].t - h[1].t = 250 => (~h[1].ran /\ h[2].ran)
            /\ h[2].t - h[1].t = 400 => (~h[1].ran /\ ~h[2].ran)

(***************************************************************************)
(* C21: onDoubleClick, in the selector form and in the element form: of    *)
(* three clicks on the same element, each within the timeout of the one    *)
(* before, the handler runs exactly once, on the second click; the third   *)
(* click counts as a new first click.                                      *)
(***************************************************************************)
Rapid(h) == \A k \in 2..Len(h) : h[k].t - h[k - 1].t <= Timeout
C21_TripleClick ==
    \A h \in Histories :
        (Len(h) = 3 /\ Rapid(h)) => (~h[1].ran /\ h[2].ran /\ ~h[3].ran)

(***************************************************************************)
(* AnimEngine.throttle(fn, wait = 50): one wrapper, invoked at times the   *)
(* clock reads; now() is performance.now().                                *)
(***************************************************************************)
ThrottleWait == 50
MaxInvokes == 3
MaxThrottleTime == 150

\* if (t - last >= wait) { last = t; fn.apply(this, args); }
accepts(last, t) == t - last >= ThrottleWait

\* last = t, only inside the if
lastAlways(last, t) == t
lastAfter(last, t) == IF accepts(last, t) THEN t ELSE last

Invoked(t, ran) == [t |-> t, ran |-> ran]

\* one invocation of the wrapper, some time after the page has loaded
Invoke ==
    /\ clock > 0
    /\ Len(throttleLog) < MaxInvokes
    /\ throttleLast' = lastAfter(throttleLast, clock)
    /\ throttleLog' = Append(throttleLog, Invoked(clock, accepts(throttleLast, clock)))
    /\ UNCHANGED <<clock, animVars, clickVars, viewVars, hoverVars, floatVars>>

\* time passes between invocations
ThrottleGaps == {20, 30, 50}
Elapse(dt) ==
    /\ clock + dt <= MaxThrottleTime
    /\ clock' = clock + dt
    /\ UNCHANGED <<animVars, triggerVars>>

NextThrottle ==
    \/ Invoke
    \/ \E dt \in ThrottleGaps : Elapse(dt)

SpecThrottle == Init /\ [][NextThrottle]_vars

\* invocation j was accepted and none between j and k was
LastAccepted(j, k) ==
    /\ throttleLog[j].ran
    /\ \A i \in (j + 1)..(k - 1) : ~throttleLog[i].ran

(***************************************************************************)
(* C22: throttle(fn, waitMs): the first invocation of the wrapper runs fn  *)
(* whatever the clock reads; a later invocation runs fn if and only if at  *)
(* least waitMs have passed since the last invocation that ran it.         *)
(***************************************************************************)
C22_Throttle ==
    /\ Len(throttleLog) >= 1 => throttleLog[1].ran
    /\ \A k \in 2..Len(throttleLog) : \A j \in 1..(k - 1) :
           LastAccepted(j, k) =>
               (throttleLog[k].ran <=> throttleLog[k].t - throttleLog[j].t >= ThrottleWait)

(***************************************************************************)
(* AnimEngine.onEnterViewport(selectorOrElement, optsOrCb, maybeCb): one   *)
(* IntersectionObserver per registration.  In a frame the host finds the   *)
(* targets whose intersection changed and hands each observer one entry    *)
(* per target it still observes, in the order the targets were observed.   *)
(***************************************************************************)
MaxCrossings == 4

OptionsOf == [default |-> Null, once |-> Some(TRUE), every |-> Some(FALSE)]

\* const once = options.once == null ? true : !!options.once
onceNever(opt) == FALSE
onceOf(opt) == IF opt = Null THEN TRUE ELSE opt[1]

Noted(kind, reg, el) == [kind |-> kind, reg |-> reg, el |-> el]

\* entry.isIntersecting of the entry for el when el's intersection changes
isIntersecting(el) == el \notin visible

\* the entries handed to registration r when the targets in moved change
RECURSIVE entriesFor(_, _, _)
entriesFor(r, moved, k) ==
    IF k > Len(Targets) THEN <<>>
    ELSE (IF Targets[k] \in moved /\ Targets[k] \in observed[r] THEN <<Targets[k]>> ELSE <<>>)
         \o entriesFor(r, moved, k + 1)

\* entries.forEach: if (entry.isIntersecting) { callback(entry.target, entry); ... }
RECURSIVE callbacksOf(_, _, _)
callbacksOf(r, es, k) ==
    IF k > Len(es) THEN <<>>
    ELSE (IF isIntersecting(es[k]) THEN <<Noted("callback", r, es[k])>> ELSE <<>>)
         \o callbacksOf(r, es, k + 1)

\* ... if (once) io.unobserve(entry.target)
unobserved(r, es) ==
    {es[k] : k \in {j \in 1..Len(es) : isIntersecting(es[j]) /\ onceOf(OptionsOf[r])}}

RECURSIVE crossingsOf(_, _)
crossingsOf(moved, k) ==
    IF k > Len(Targets) THEN <<>>
    ELSE (IF Targets[k] \in moved
          THEN <<Noted(IF isIntersecting(Targets[k]) THEN "enter" ELSE "exit", "host",
                       Targets[k])>>
          ELSE <<>>)
         \o crossingsOf(moved, k + 1)

Crossings == Len(SelectSeq(viewLog, LAMBDA n : n.kind \in {"enter", "exit"}))

\* a frame in which the targets in moved cross the threshold; every observer is notified
Cross(moved) ==
    /\ Crossings + Cardinality(moved) <= MaxCrossings
    /\ visible' = (visible \ moved) \cup (moved \ visible)
    /\ observed' = [r \in Registrations |-> observed[r] \ unobserved(r, entriesFor(r, moved, 1))]
    /\ viewLog' = viewLog \o crossingsOf(moved, 1)
                  \o callbacksOf("default", entriesFor("default", moved, 1), 1)
                  \o callbacksOf("once", entriesFor("once", moved, 1), 1)
                  \o callbacksOf("every", entriesFor("every", moved, 1), 1)
    /\ UNCHANGED <<clock, animVars, clickVars, throttleVars, hoverVars, floatVars>>

Disposed(r) == \E i \in 1..Len(viewLog) : viewLog[i] = Noted("disconnect", r, "all")

\* disconnect: () => io.disconnect()
keepsObserving(obs, r) == obs
disconnect(obs, r) == [obs EXCEPT ![r] = {}]

\* the disposer returned by the registration is called
Dispose(r) ==
    /\ ~Disposed(r)
    /\ observed' = disconnect(observed, r)
    /\ viewLog' = Append(viewLog, Noted("disconnect", r, "all"))
    /\ UNCHANGED <<clock, visible, animVars, clickVars, throttleVars, hoverVars, floatVars>>

NextView ==
    \/ \E moved \in (SUBSET {"e1", "e2"}) \ {{}} : Cross(moved)
    \/ \E r \in Registrations : Dispose(r)

SpecView == Init /\ [][NextView]_vars

At(kind, r, el) == {i \in 1..Len(viewLog) : viewLog[i] = Noted(kind, r, el)}
CrossAt(el) == At("enter", "host", el) \cup At("exit", "host", el)
\* the callback of registration r has run for el exactly once, between el's first
\* intersecting entry and its next crossing, and r no longer observes el
FiredOnFirstEnter(r, el) ==
    /\ Cardinality(At("callback", r, el)) = 1
    /\ \A c \in At("callback", r, el) :
           /\ \E x \in At("enter", "host", el) : x < c /\ \A y \in CrossAt(el) : x <= y
           /\ Cardinality({z \in CrossAt(el) : z < c}) = 1
    /\ el \notin observed[r]
StillWaiting(r, el) ==
    /\ At("callback", r, el) = {}
    /\ At("enter", "host", el) = {}
    /\ el \in observed[r]

EntersAfter(d, el) == \E x \in At("enter", "host", el) : d < x

MaxMoves == 6

Nodes == {"outside", "e1", "e1.a", "e1.b", "e2"}

\* e.target.closest(selectorOrElement); "none" is null
closest(node) ==
    CASE node \in {"e1", "e1.a", "e1.b"} -> "e1"
      [] node = "e2" -> "e2"
      [] OTHER -> "none"

Hovered(fn, el) == [fn |-> fn, el |-> el]

\* mouseout listener: const el = e.target.closest(...); if (el) leaveFn(el, e)
mouseout(target) ==
    IF closest(target) # "none" THEN <<Hovered("leave", closest(target))>> ELSE <<>>

\* mouseover listener: const el = e.target.closest(...); if (el) enterFn(el, e)
mouseover(target) ==
    IF closest(target) # "none" THEN <<Hovered("enter", closest(target))>> ELSE <<>>

\* the pointer moves onto another node: mouseout on the node left, then mouseover on
\* the node entered
Move(to) ==
    /\ to # pointer
    /\ Len(hoverLog) + 2 <= 2 * MaxMoves
    /\ pointer' = to
    /\ hoverLog' = hoverLog \o mouseout(pointer) \o mouseover(to)
    /\ UNCHANGED <<clock, animVars, clickVars, throttleVars, viewVars, floatVars>>

NextHover == \E to \in Nodes : Move(to)

SpecHover == Init /\ [][NextHover]_vars

\* what the claim has a move from node a to node b call
LeavesAtBoundary(a, b) ==
    IF closest(a) # "none" /\ closest(a) # closest(b)
    THEN <<Hovered("leave", closest(a))>> ELSE <<>>
EntersAtBoundary(a, b) ==
    IF closest(b) # "none" /\ closest(a) # closest(b)
    THEN <<Hovered("enter", closest(b))>> ELSE <<>>

(***************************************************************************)
(* C25: onHover in selector form: enterFn runs only when the pointer moves *)
(* from outside a matching element to inside it, leaveFn only when it      *)
(* moves from inside to outside; a move between descendants of the same    *)
(* matching element runs neither.                                          *)
(***************************************************************************)
C25_Step ==
    pointer' # pointer =>
        hoverLog' = hoverLog \o LeavesAtBoundary(pointer, pointer')
                             \o EntersAtBoundary(pointer, pointer')
C25_EnterLeaveAtBoundary == [][C25_Step]_vars

(***************************************************************************)
(* Channels: calls that animate several transform channels of one element, *)
(* with and without a delay, are ticked part of the way, cancelled by a    *)
(* later call or by their handle, and followed by calls on other channels. *)
(***************************************************************************)
MaxChannelCalls == 2

ChannelCalls ==
    {Call(<<"translateX", "scale">>, <<4, 3>>, <<NoneStr, NoneStr>>, Opts(Some(2), Null, Some(1))),
     Call(<<"rotate">>, <<2>>, <<NoneStr>>, Opts(Some(2), Null, Null)),
     Call(<<"scale", "translateY">>, <<5, 2>>, <<NoneStr, NoneStr>>, Opts(Some(2), Null, Null))}

NextChannels ==
    \/ \E c \in ChannelCalls :
           Len(handles) < MaxChannelCalls /\ Animate("e1", c.keys, c.tos, c.reads, c.opts)
    \/ \E c \in 1..MaxChannelCalls : HandleStop(c)
    \/ \E dt \in FrameSteps : Frame(dt)
    \/ RunCallback

SpecChannels == Init /\ [][NextChannels]_vars

Cache(el) == elems[el].anim_transform
IsLatest(c) == \A d \in (c + 1)..Len(calls) : calls[d].el # calls[c].el
Unticked(c) == \A i \in SeqSet(calls[c].tweens) : Updates(i) = <<>>
Waited(i) == \E k \in 1..Len(log[i]) : log[i][k].ev = "wait"

(***************************************************************************)
(* C26: when animate() names a transform channel, then from its return     *)
(* until the first update of its Tweens, a pending delay included, the     *)
(* channel cache holds the resolved start value of that channel and the    *)
(* element's inline transform is the rendering of the cache.               *)
(***************************************************************************)
C26_StartCachedAndRendered ==
    \A c \in 1..Len(calls) :
        (calls[c].ret = "handle" /\ IsLatest(c) /\ Unticked(c)) =>
            \A i \in SeqSet(calls[c].tweens) :
                tweens[i].kind = "transform" =>
                    /\ tweens[i].meta \in DOMAIN Cache(calls[c].el)
                    /\ Cache(calls[c].el)[tweens[i].meta] = tweens[i].from
                    /\ elems[calls[c].el].style_transform
                           = buildTransformString(Cache(calls[c].el))

C26_Witness ==
    \E c \in 1..Len(calls) : \E i \in SeqSet(calls[c].tweens) :
        /\ IsLatest(c) /\ Unticked(c) /\ Waited(i)
        /\ tweens[i].meta = "scale" /\ tweens[i].from = R(2)
        /\ Cache("e1")["scale"] = R(2)
        /\ elems["e1"].style_transform
               = <<Fn("translate3d", <<R(2), R(0), R(0)>>), Fn("scale", <<R(2)>>)>>

\* the rendering the composer promises for a cache: one translate3d group if an axis
\* is cached, absent axes as 0, then one group per cached channel in the fixed order
Axes == {"translateX", "translateY", "translateZ"}
AxisOf(map, c) == IF c \in DOMAIN map THEN map[c] ELSE R(0)
PlainOrder == <<"scale", "scaleX", "scaleY", "rotate", "skewX", "skewY">>
PlainCached(map) == SelectSeq(PlainOrder, LAMBDA c : c \in DOMAIN map)
Promised(map) ==
    (IF Axes \cap DOMAIN map = {} THEN <<>>
     ELSE <<Fn("translate3d", <<AxisOf(map, "translateX"), AxisOf(map, "translateY"),
                                AxisOf(map, "translateZ")>>)>>)
    \o [k \in 1..Len(PlainCached(map)) |->
           Fn(PlainCached(map)[k], <<map[PlainCached(map)[k]]>>)]

(***************************************************************************)
(* C27: after every animate() call that names a transform channel and      *)
(* after every tick of a transform Tween, the element's inline transform   *)
(* is the rendering of exactly the channels in its cache: one translate3d  *)
(* group if translateX, translateY or translateZ is cached (absent axes as *)
(* 0px), then scale, scaleX, scaleY, rotate, skewX, skewY, and no group    *)
(* for a channel that is not cached.                                       *)
(***************************************************************************)
C27_RenderedIsTheCache ==
    \A el \in DOMAIN elems :
        elems[el].has_anim_transform =>
            elems[el].style_transform = Promised(Cache(el))

C27_Witness ==
    /\ DOMAIN Cache("e1") = {"scale", "translateY", "rotate"}
    /\ \E i \in DOMAIN tweens : tweens[i].meta = "rotate" /\ Len(Updates(i)) = 2
    /\ elems["e1"].style_transform
           = <<Fn("translate3d", <<R(0), R(1), R(0)>>), Fn("scale", <<R(3)>>),
               Fn("rotate", <<R(1)>>)>>

\* the Tweens whose frame callback ran in this step
Ticked == {i \in DOMAIN log : log'[i] # log[i]}
LastWritten(i) == IF Updates(i) = <<>> THEN tweens[i].from ELSE Last(Updates(i)).val

(***************************************************************************)
(* C28: a tick of the Tween of transform channel c changes the element's   *)
(* channel cache only at c: every other channel keeps its cached value, so *)
(* the Tweens that one animate() call runs on different channels of an     *)
(* element each find their own last value in the cache.                    *)
(***************************************************************************)
C28_Step ==
    \A i \in Ticked :
        /\ DOMAIN elems'[tweens[i].el].anim_transform = DOMAIN Cache(tweens[i].el)
        /\ \A k \in DOMAIN Cache(tweens[i].el) \ {tweens[i].meta} :
               elems'[tweens[i].el].anim_transform[k] = Cache(tweens[i].el)[k]
C28_Side ==
    \A c \in 1..Len(calls) :
        IsLatest(c) =>
            \A i \in SeqSet(calls[c].tweens) :
                /\ tweens[i].meta \in DOMAIN Cache(calls[c].el)
                /\ Cache(calls[c].el)[tweens[i].meta] = LastWritten(i)
C28_TickWritesOwnChannelOnly == [][C28_Step]_vars /\ []C28_Side

C28_Witness ==
    \E c \in 1..Len(calls) : \E i, j \in SeqSet(calls[c].tweens) :
        /\ IsLatest(c)
        /\ tweens[i].meta = "scale" /\ tweens[j].meta = "translateY"
        /\ Len(Updates(i)) = 2 /\ Len(Updates(j)) = 2
        /\ Cache("e1")["scale"] = R(3) /\ Cache("e1")["translateY"] = R(1)
        /\ "rotate" \in DOMAIN Cache("e1")

\* the Tweens this step cancels
Cancelled == {i \in DOMAIN tweens : ~tweens[i]._stopped /\ tweens'[i]._stopped}
GroupOf(k) == IF k \in Axes THEN "translate3d" ELSE k
Rendered(str, k) == \E g \in 1..Len(str) : str[g].fn = GroupOf(k)

(***************************************************************************)
(* C29: cancellation writes nothing: when a new animate() call or a        *)
(* handle's stop() cancels Tweens, each cancelled channel keeps the last   *)
(* value its Tween wrote, neither the start value nor the target, and      *)
(* every cached channel, named in the new call or not, keeps its value and *)
(* its group in the rendered transform.                                    *)
(***************************************************************************)
C29_Step ==
    \A i \in Cancelled :
        /\ Cache(tweens[i].el)[tweens[i].meta] = LastWritten(i)
        /\ \A k \in DOMAIN Cache(tweens[i].el) :
               /\ k \in DOMAIN elems'[tweens[i].el].anim_transform
               /\ elems'[tweens[i].el].anim_transform[k] = Cache(tweens[i].el)[k]
               /\ Rendered(elems'[tweens[i].el].style_transform, k)
C29_CancellationWritesNothing == [][C29_Step]_vars

C29_Witness ==
    /\ Len(calls) = 2 /\ calls[2].keys = <<"rotate">>
    /\ \E i \in SeqSet(calls[1].tweens) :
           /\ tweens[i]._stopped /\ tweens[i].meta = "scale"
           /\ Updates(i) # <<>>
           /\ Last(Updates(i)).raw = Half
           /\ Cache("e1")["scale"] = R(3)
           /\ tweens[i].from = R(1) /\ tweens[i].to = R(5)
    /\ Rendered(elems["e1"].style_transform, "scale")
    /\ Rendered(elems["e1"].style_transform, "translateY")

Listed(el) == SeqSet(elems[el].anim_tweens)
LatestOn(el) == {c \in 1..Len(calls) : calls[c].el = el /\ IsLatest(c)}

(***************************************************************************)
(* C30: after any sequence of animate() calls, handle stop() calls and     *)
(* frame ticks, an element's list of active Tweens holds only Tweens that  *)
(* the most recent animate() call on that element constructed, and never a *)
(* Tween that has been stopped.                                            *)
(***************************************************************************)
C30_ListIsLatestAndLive ==
    \A el \in DOMAIN elems : \A i \in Listed(el) :
        /\ ~tweens[i]._stopped
        /\ \E c \in LatestOn(el) : i \in SeqSet(calls[c].tweens)

C30_Witness ==
    /\ Len(calls) = 2
    /\ Listed("e1") = SeqSet(calls[2].tweens)
    /\ Cardinality(Listed("e1")) = 2
    /\ \A i \in SeqSet(calls[1].tweens) : tweens[i]._stopped /\ Updates(i) # <<>>
    /\ \E i \in Listed("e1") : Len(log[i]) > 0 /\ Last(log[i]).ev = "complete"

(***************************************************************************)
(* C35: the double-click handler never runs on the first click an element  *)
(* ever receives, whatever the clock reads at that click, readings not     *)
(* greater than the timeout included, in the selector form and in the      *)
(* element form.                                                           *)
(***************************************************************************)
C35_FirstClickIsSilent ==
    \A h \in Histories : Len(h) >= 1 => ~h[1].ran

Accepted == {k \in 1..Len(throttleLog) : throttleLog[k].ran}

(***************************************************************************)
(* C36: for a throttled wrapper, any two accepted invocations are at least *)
(* waitMs apart, and a dropped invocation does not move the window: an     *)
(* invocation that comes waitMs or more after the last accepted one is     *)
(* accepted, however many invocations were dropped in between.             *)
(***************************************************************************)
C36_WindowFromLastAccepted ==
    /\ \A j, k \in Accepted :
           j < k => throttleLog[k].t - throttleLog[j].t >= ThrottleWait
    /\ \A k \in 2..Len(throttleLog) : \A j \in 1..(k - 1) :
           (LastAccepted(j, k) /\ throttleLog[k].t - throttleLog[j].t >= ThrottleWait) =>
               throttleLog[k].ran

C36_Witness ==
    /\ Len(throttleLog) = 3
    /\ throttleLog[1].ran /\ ~throttleLog[2].ran /\ throttleLog[3].ran
    /\ throttleLog[2].t - throttleLog[1].t = 30
    /\ throttleLog[3].t - throttleLog[2].t = 20

(***************************************************************************)
(* Liveness: the host keeps delivering frames, one millisecond apart, and  *)
(* keeps running their callbacks.  A call is made only while the delay and *)
(* the duration of its Tweens still fit below the model's last timestamp.  *)
(***************************************************************************)
MaxLiveCalls == 2

LiveCalls ==
    {Call(<<"translateX">>, <<3>>, <<NoneStr>>, Opts(Some(2), Null, Some(1))),
     Call(<<"translateX">>, <<4>>, <<NoneStr>>, Opts(Some(2), Some("easeOutQuad"), Null)),
     Call(<<"scale", "rotate">>, <<3, 2>>, <<NoneStr, NoneStr>>, Opts(Some(1), Null, Null))}

Fits(c) == clock + 1 + optDelay(c.opts) + IMax(1, optDuration(c.opts)) <= MaxTime

NextLive ==
    \/ \E c \in LiveCalls :
           Len(handles) < MaxLiveCalls /\ Fits(c) /\ Animate("e1", c.keys, c.tos, c.reads, c.opts)
    \/ \E c \in 1..MaxLiveCalls : HandleStop(c)
    \/ Frame(1)
    \/ RunCallback

\* the host runs the next callback of a frame it has begun: among the steps of
\* NextLive these are the RunCallback steps
RunsNext == batch # <<>> /\ batch' = Tail(batch)

SpecLive == Init /\ [][NextLive]_vars /\ WF_vars(Frame(1)) /\ WF_batch(RunsNext)

LiveTweens == 1..(2 * MaxLiveCalls)

\* Tween i has emitted an update with raw progress 1 and then onComplete
Completed(i) ==
    /\ Len(Emitted(log[i])) >= 2
    /\ Last(Emitted(log[i])).ev = "complete"
    /\ Emitted(log[i])[Len(Emitted(log[i])) - 1].ev = "update"
    /\ Emitted(log[i])[Len(Emitted(log[i])) - 1].raw = R(1)

(***************************************************************************)
(* C31: every Tween that is started and never stopped, neither directly    *)
(* nor by a later animate() on its element, eventually emits an update     *)
(* with raw progress 1 followed by onComplete, provided frames keep being  *)
(* delivered and the clock keeps advancing; once completed it has no frame *)
(* request pending.                                                        *)
(***************************************************************************)
Settled(i) == i \in DOMAIN tweens /\ (tweens[i]._stopped \/ Completed(i))
C31_Rests == \A i \in DOMAIN tweens : Completed(i) => ~Pending(i)
C31_EventuallyCompletes ==
    /\ \A i \in LiveTweens : (i \in DOMAIN tweens) ~> Settled(i)
    /\ []C31_Rests

C31_Witness ==
    \E i \in DOMAIN tweens :
        /\ Completed(i) /\ ~tweens[i]._stopped /\ ~Pending(i)
        /\ tweens[i].delay = 1 /\ Waited(i)
        /\ Len(Updates(i)) = 3

(***************************************************************************)
(* Late stops: the same host, with the stop() of every handle observed.    *)
(***************************************************************************)
MaxLateCalls == 2

LateCalls ==
    {Call(<<"translateX">>, <<4>>, <<NoneStr>>, Opts(Some(2), Some("easeOutQuad"), Null)),
     Call(<<"scale", "rotate">>, <<3, 2>>, <<NoneStr, NoneStr>>, Opts(Some(1), Null, Null))}

NextLate ==
    \/ \E c \in LateCalls :
           Len(handles) < MaxLateCalls /\ Fits(c) /\ Animate("e1", c.keys, c.tos, c.reads, c.opts)
    \/ \E c \in 1..MaxLateCalls : HandleStopSeen(c)
    \/ Frame(1)
    \/ RunCallback

SpecLate == Init /\ [][NextLate]_vars /\ WF_vars(Frame(1)) /\ WF_batch(RunsNext)

LateTweens == 1..(2 * MaxLateCalls)

\* the handle of call c was stopped after a later call on the same element
StoppedLate(c) ==
    \E d \in (c + 1)..Len(calls) : calls[d].el = calls[c].el /\ d <= calls[c].stoppedAfter
StopsLate(c) == calls'[c] # calls[c] /\ ~IsLatest(c)
OutlivesLateStop(i) ==
    /\ i \in DOMAIN tweens
    /\ \E c, d \in 1..Len(calls) : StoppedLate(c) /\ IsLatest(d) /\ i \in SeqSet(calls[d].tweens)

(***************************************************************************)
(* C32: stop() on the handle of an earlier animate() call, called after a  *)
(* later animate() call on the same element, has no effect on the later    *)
(* call's Tweens: the Tweens, their frame requests, the element and its    *)
(* list of active Tweens are unchanged, and the later Tweens still run to  *)
(* completion unless their own handle stops them.                          *)
(***************************************************************************)
C32_Step ==
    \A c \in 1..Len(calls) :
        StopsLate(c) =>
            /\ tweens' = tweens /\ rafMap' = rafMap /\ elems' = elems /\ log' = log
            /\ \A d \in 1..Len(calls) : d # c => calls'[d] = calls[d]
C32_LateStopIsNoOp ==
    /\ [][C32_Step]_vars
    /\ \A i \in LateTweens : OutlivesLateStop(i) ~> Settled(i)

C32_Witness ==
    /\ Len(calls) = 2 /\ StoppedLate(1) /\ ~calls[2].stopped
    /\ Listed("e1") = SeqSet(calls[2].tweens)
    /\ \A i \in SeqSet(calls[2].tweens) : Completed(i) /\ ~tweens[i]._stopped
    /\ \E i \in SeqSet(calls[1].tweens) : Updates(i) # <<>>

(***************************************************************************)
(* Two elements: calls and handle stops on either element, same host.      *)
(***************************************************************************)
MaxPairCalls == 2

PairCalls == {Call(<<"translateX">>, <<4>>, <<NoneStr>>, Opts(Some(2), Null, Null))}

NextPair ==
    \/ \E el \in DOMAIN elems, c \in PairCalls :
           Len(handles) < MaxPairCalls /\ Fits(c) /\ Animate(el, c.keys, c.tos, c.reads, c.opts)
    \/ \E c \in 1..MaxPairCalls : HandleStopSeen(c)
    \/ Frame(1)
    \/ RunCallback

SpecPair == InitOrder /\ [][NextPair]_vars /\ WF_vars(Frame(1)) /\ WF_batch(RunsNext)

PairTweens == 1..MaxPairCalls

\* the element this step's animate() or handle stop() acts on
ActedOn ==
    IF Len(calls') > Len(calls) THEN {Last(calls').el}
    ELSE {calls[c].el : c \in {d \in 1..Len(calls) : calls'[d] # calls[d]}}
\* the frame requests of the Tweens of element o, in request order
RequestsOf(o, tws, map) == SelectSeq(map, LAMBDA e : tws[e[2]].el = o)
Untouched(o) ==
    /\ elems'[o] = elems[o]
    /\ \A i \in DOMAIN tweens : tweens[i].el = o => (tweens'[i] = tweens[i] /\ log'[i] = log[i])
    /\ \A i \in DOMAIN tweens' : tweens'[i].el = o => i \in DOMAIN tweens
    /\ RequestsOf(o, tweens', rafMap') = RequestsOf(o, tweens, rafMap)

(***************************************************************************)
(* C33: animate() and handle stop() on one element leave every other       *)
(* element's animation state unchanged: its channel cache, its list of     *)
(* active Tweens, its Tweens and their frame requests are untouched, and   *)
(* its Tweens still run to completion unless a call or a handle on their   *)
(* own element stops them.                                                 *)
(***************************************************************************)
C33_Step ==
    (batch' = batch /\ clock' = clock) => \A o \in DOMAIN elems \ ActedOn : Untouched(o)
C33_OtherElementUntouched ==
    /\ [][C33_Step]_vars
    /\ \A i \in PairTweens : (i \in DOMAIN tweens) ~> Settled(i)

C33_Witness ==
    /\ Len(calls) = 2 /\ calls[1].el = "e1" /\ calls[2].el = "e2"
    /\ calls[2].stopped
    /\ \A i \in SeqSet(calls[1].tweens) : Completed(i) /\ ~tweens[i]._stopped
    /\ \A i \in SeqSet(calls[2].tweens) :
           tweens[i]._stopped /\ Updates(i) # <<>> /\ Updates(i)[1].t = 2
    /\ Listed("e1") = SeqSet(calls[1].tweens)
    /\ Cache("e1")["translateX"] = R(4)

(***************************************************************************)
(* The host's arithmetic.  A JavaScript number is a binary floating-point  *)
(* value, and each +, - and * returns the exact result rounded to the      *)
(* nearest representable value, ties to the even significand.  Precision   *)
(* is the width of the significand in bits (53 in the host, narrowed here  *)
(* so that the significands stay small); a value is the exact rational it  *)
(* denotes.  The exponent range is wide enough that nothing over- or       *)
(* underflows.                                                             *)
(***************************************************************************)
Precision == 5
MaxExponent == 12

\* q * 2^k
Scaled(q, k) == IF k >= 0 THEN Norm(q[1] * 2^k, q[2]) ELSE Norm(q[1], q[2] * 2^(-k))
Magnitude(q) == <<Abs(q[1]), q[2]>>
\* the k for which 2^(Precision-1) <= |q| * 2^k < 2^Precision
Normalised(x) == RLe(R(2^(Precision - 1)), x) /\ RLt(x, R(2^Precision))
ExponentOf(q) == CHOOSE k \in -MaxExponent..MaxExponent : Normalised(Scaled(Magnitude(q), k))
\* the integer nearest to x >= 0, the even one of two equally near
TiesToEven(f, r, d) ==
    IF 2 * r < d THEN f ELSE IF 2 * r > d THEN f + 1 ELSE IF f % 2 = 0 THEN f ELSE f + 1
NearestEven(x) == TiesToEven(x[1] \div x[2], x[1] % x[2], x[2])
Signed(q, m) == IF q[1] < 0 THEN R(-m) ELSE R(m)
RoundedAt(q, k) == Scaled(Signed(q, NearestEven(Scaled(Magnitude(q), k))), -k)
\* the representable value nearest to the exact q
fl(q) == IF q[1] = 0 THEN q ELSE RoundedAt(q, ExponentOf(q))

\* a + (b - a) * t as the host evaluates it: three operations, each rounded
lerpHost(a, b, t) == fl(RAdd(a, fl(RMul(fl(RSub(b, a)), t))))

\* the seven entries of the Easing Table
EasingNames ==
    {"linear", "easeInCubic", "easeOutCubic", "easeOutQuad", "easeInOutCubic", "outQuad", "ease"}
\* this.easing(1) in the host: at t = 1 every intermediate result of every entry is
\* an integer between -1 and 4, which no operation rounds
easedAtEnd(easing) == fl(Easings(easing, R(1)))

\* decimal texts a channel's target is written as, and a start value is read from
Decimals == {R(0), <<1, 10>>, <<3, 10>>, <<1, 2>>, <<3, 4>>, <<9, 10>>, R(1), R(2)}
\* parseFloat of a decimal text: the representable value nearest to it
parseFloatHost(text) == fl(text)

\* The tick that completes a transform Tween of channel key from `from` to `to`:
\* raw = clamp(elapsed / max(1, duration)) is 1, v = lerp(from, to, easing(1)), and
\* onUpdate writes v to the element's cache and renders the cache.
completingTick(key, from, to, easing) ==
    [key |-> key, from |-> from, to |-> to, easing |-> easing,
     elem |-> setChannel(Element({}), key, lerpHost(from, to, easedAtEnd(easing)))]

Completes(key, fromText, toText, easing) ==
    /\ endTick' = completingTick(key, parseFloatHost(fromText), parseFloatHost(toText), easing)
    /\ UNCHANGED <<clock, animVars, clickVars, throttleVars, viewVars, hoverVars>>

NextHost ==
    \E fromText \in Decimals, toText \in Decimals, easing \in EasingNames :
        Completes("scale", fromText, toText, easing)

SpecHost == Init /\ [][NextHost]_vars

(***************************************************************************)
(* C34: when a transform-channel Tween completes without being stopped,    *)
(* under any easing of the Easing Table, the cached value of its channel   *)
(* equals the numeric target exactly and the element's transform is the    *)
(* rendering of the cache holding that target.                             *)
(***************************************************************************)
C34_EndsOnTarget ==
    endTick # Null =>
        /\ endTick.elem.anim_transform[endTick.key] = endTick.to
        /\ endTick.elem.style_transform = buildTransformString((endTick.key :> endTick.to))

====
